---------------------------- MODULE Spec2Model ----------------------------
(***************************************************************************)
(* A model of the smart-crop tool: the client's per-image box store and    *)
(* its pointer/keyboard handlers (client/src/App.tsx), and the server's    *)
(* detection and extraction routes (server/src/index.ts).                  *)
(*                                                                         *)
(* The specifications share the variables below:                           *)
(*   Spec         the client box store: upload, seeding, add, remove,      *)
(*                keyboard, row buttons, focus changes, Clear All          *)
(*   SpecPointer  the client pointer gestures on a seeded session          *)
(*   SpecHit, SpecDrag, SpecKeys, SpecCursor, SpecFrame, SpecView          *)
(*                pointer-down on overlapping boxes, drags at fractional   *)
(*                positions, keys, hover moves, gestures on an added box,  *)
(*                zoom and pan                                             *)
(*   SpecSeed     uploads in either mode and their seeding                 *)
(*   SpecSave     the save of a seeded batch                               *)
(*   SpecCrop     POST /api/multiple-crop-mouldings, concurrent requests   *)
(*   SpecExtract  the geometry of one extraction                           *)
(*   SpecDetect, SpecNurre, SpecRows                                       *)
(*                POST /api/detect-item-numbers                            *)
(* A specification leaves the other parts' variables at their initial      *)
(* values.                                                                 *)
(*                                                                         *)
(* Numbers: pixel coordinates are integers; a vertical or horizontal       *)
(* center (x0 + W/2) is kept doubled (cx2 = 2*x0 + W) so that it stays an  *)
(* integer; a rotation is kept as a count of 0.15 degree steps.            *)
(***************************************************************************)
EXTENDS Integers, Sequences, FiniteSets, TLC

VARIABLES
    \* ---- server, detection route
    dreq,        \* the detection request being answered
    dresp,       \* its response
    dtrace,      \* the strategies the route ran for it, in order
    workers,     \* the recognizer workers that request created, and those of
                 \* them not terminated
    \* ---- server, extraction route
    creq,        \* slot -> the extraction request in that slot, with its position
    fs,          \* public/crops: the names of the files in it
    clock,       \* Date.now()
    served,      \* number of extraction requests received so far
    wlog,        \* the last writeFileSync: name, label, directory before it
    extract,     \* the crop whose extraction rectangle is computed, and the rectangle
    \* ---- client (App.tsx), the component's state
    files,       \* the uploaded images, as their (w, h); image index i is files[i + 1]
    boxesMap,    \* image index -> its boxes, in insertion order
    activeIdx,   \* the focused image
    activeCropId,\* the selected box id, 0 for null
    mode,        \* "catalog" | "screenshot"
    viewMode,    \* "single" | "all"
    zoom4,       \* zoom in quarters: zoom = zoom4 / 4
    panOffset,   \* [x, y], screen pixels
    gesture,     \* isDragging, isResizing, isPanning, dragStart, panStart,
                 \* resizeHandle, resizeStartBoxRef.current
    pending,     \* the detection tasks in flight
    pointerOver, \* the image index of the canvas under the pointer, -1 for none
    budget,      \* [uploads, edits, gestures, clicks, lists, moves]: events counted against the bounds
    lastOp,      \* history: the last client operation, the image index it acted
                 \* on and that image's boxes before it
    save,        \* handleSaveAllCrops: isProcessing, currentStep, the running
                 \* call's position and its requests
    cursor       \* image index -> canvas.style.cursor of its canvas, "" while unset

detVars  == <<dreq, dresp, dtrace, workers>>
cropVars == <<creq, fs, clock, served, wlog, extract>>
viewVars == <<zoom4, panOffset, gesture, pointerOver>>
uiVars   == <<files, boxesMap, activeIdx, activeCropId, mode, viewMode,
              zoom4, panOffset, gesture, pending, pointerOver, budget, lastOp, save, cursor>>
vars     == <<dreq, dresp, dtrace, workers, creq, fs, clock, served, wlog, extract,
              files, boxesMap, activeIdx, activeCropId, mode, viewMode,
              zoom4, panOffset, gesture, pending, pointerOver, budget, lastOp, save, cursor>>

(***************************************************************************)
(* Helpers                                                                 *)
(***************************************************************************)
Abs(n) == IF n < 0 THEN -n ELSE n

Max2(a, b) == IF a >= b THEN a ELSE b

Min2(a, b) == IF a <= b THEN a ELSE b

\* Lengths of the image space are counted in units of 1 / Sub pixel.
Sub == 2

\* Math.round(n / 1000) for n >= 0: round half up.
RoundMilli(n) == (n + 500) \div 1000

Digits == {"0", "1", "2", "3", "4", "5", "6", "7", "8", "9"}

\* s.replace(/\D/g, ''): the digit characters of s, in order.
DigitsOnly(s) == SelectSeq(s, LAMBDA ch : ch \in Digits)

(***************************************************************************)
(* DetectionEngine (server/src/index.ts)                                   *)
(***************************************************************************)
\* A recognizer word: text (a sequence of characters), bbox, confidence.
\* detectPresto's words.map: x, y, w, h, cx, cy, conf.
PrestoWord(w) ==
    LET W == Max2(0, w.x1 - w.x0)
        H == Max2(0, w.y1 - w.y0)
    IN  [raw |-> w.text, text |-> DigitsOnly(w.text),
         x |-> w.x0, y |-> w.y0, w |-> W, h |-> H,
         cx2 |-> 2 * w.x0 + W, cy2 |-> 2 * w.y0 + H, conf |-> w.conf]

\* /^\d{3,6}$/ on a text that holds digits only.
IsItemNumber(text) == Len(text) >= 3 /\ Len(text) <= 6

\* ar = w > 0 ? w / h : 0, compared with [lo10/10, hi10/10].
AspectWithin(o, lo10, hi10) ==
    /\ o.w > 0
    /\ o.h > 0
    /\ 10 * o.w >= lo10 * o.h
    /\ 10 * o.w <= hi10 * o.h

\* detectPresto's filter without its edge test.
PrestoKeepAnywhere(o, imgW, imgH) ==
    /\ IsItemNumber(o.text)
    /\ o.conf >= 60
    /\ 100 * o.h >= imgH
    /\ 100 * o.h <= 6 * imgH
    /\ AspectWithin(o, 9, 60)

\* detectPresto's filter: EDGE_PCT 0.12, MIN_CONF 60, MIN_H 0.010 H,
\* MAX_H 0.06 H, MIN_AR 0.9, MAX_AR 6.0.
PrestoKeep(o, imgW, imgH) ==
    /\ IsItemNumber(o.text)
    /\ o.conf >= 60
    /\ (100 * o.cx2 <= 24 * imgW \/ 100 * o.cx2 >= 176 * imgW)
    /\ 100 * o.h >= imgH
    /\ 100 * o.h <= 6 * imgH
    /\ AspectWithin(o, 9, 60)

\* .sort((a, b) => a.y - b.y || a.x - b.x)
PrestoBefore(a, b) == a.y < b.y \/ (a.y = b.y /\ a.x < b.x)

\* .sort((a, b) => b.cy - a.cy || a.x - b.x || b.h - a.h || b.conf - a.conf)
NurreBefore(a, b) ==
    \/ a.cy2 > b.cy2
    \/ (a.cy2 = b.cy2 /\ a.x < b.x)
    \/ (a.cy2 = b.cy2 /\ a.x = b.x /\ a.h > b.h)
    \/ (a.cy2 = b.cy2 /\ a.x = b.x /\ a.h = b.h /\ a.conf > b.conf)

\* The comparator of a strategy's sort call: TRUE iff it is negative for (a, b).
Before(strategy, a, b) ==
    IF strategy = "presto" THEN PrestoBefore(a, b) ELSE NurreBefore(a, b)

\* Array.prototype.sort with that comparator: stable, so an element is put
\* behind every element it does not precede.
RECURSIVE InsertSorted(_, _, _)
InsertSorted(e, sorted, strategy) ==
    IF sorted = <<>> THEN <<e>>
    ELSE IF Before(strategy, e, sorted[Len(sorted)]) 
         THEN Append(InsertSorted(e, SubSeq(sorted, 1, Len(sorted) - 1), strategy),
                     sorted[Len(sorted)])
         ELSE Append(sorted, e)

RECURSIVE StableSort(_, _)
StableSort(s, strategy) ==
    IF s = <<>> THEN <<>>
    ELSE InsertSorted(s[Len(s)], StableSort(SubSeq(s, 1, Len(s) - 1), strategy), strategy)

PrestoCandidates(words, imgW, imgH) ==
    LET mapped == [i \in 1..Len(words) |-> PrestoWord(words[i])]
    IN  StableSort(SelectSeq(mapped, LAMBDA o : PrestoKeep(o, imgW, imgH)), "presto")

\* MERGE_GAP = Math.round((imgH || 1000) * 0.015) || 15
MERGE_GAP(imgH) ==
    LET r == RoundMilli(15 * (IF imgH = 0 THEN 1000 ELSE imgH))
    IN  IF r = 0 THEN 15 ELSE r

\* One turn of the dedup loop: push d, replace the last kept one, or drop d.
DedupStepStrict(dedup, d, gap) ==
    IF dedup = <<>> \/ Abs(d.cy2 - dedup[Len(dedup)].cy2) >= 2 * gap
    THEN Append(dedup, d)
    ELSE IF d.conf > dedup[Len(dedup)].conf
         THEN [dedup EXCEPT ![Len(dedup)] = d]
         ELSE dedup

DedupStep(dedup, d, gap) ==
    IF dedup = <<>> \/ Abs(d.cy2 - dedup[Len(dedup)].cy2) > 2 * gap
    THEN Append(dedup, d)
    ELSE IF d.conf > dedup[Len(dedup)].conf
         THEN [dedup EXCEPT ![Len(dedup)] = d]
         ELSE dedup

RECURSIVE DedupRows(_, _, _)
DedupRows(cands, dedup, gap) ==
    IF cands = <<>> THEN dedup
    ELSE DedupRows(Tail(cands), DedupStep(dedup, Head(cands), gap), gap)

\* { text, x, y, w, h, conf } of each kept candidate, and their texts.
Detections(cands) ==
    [i \in 1..Len(cands) |->
        [text |-> cands[i].text, x |-> cands[i].x, y |-> cands[i].y,
         w |-> cands[i].w, h |-> cands[i].h, conf |-> cands[i].conf]]

ItemNumbers(dets) == [i \in 1..Len(dets) |-> dets[i].text]

Output(cands) ==
    [detections |-> Detections(cands), itemNumbers |-> ItemNumbers(Detections(cands))]

detectPresto(words, imgW, imgH) ==
    Output(DedupRows(PrestoCandidates(words, imgW, imgH), <<>>, MERGE_GAP(imgH)))

\* detectNurreBig: ROI_H, and the words.map with the ROI's top added to y.
ROI_H(fullH) == Max2(1, RoundMilli(300 * fullH))

NurreWord(w, fullH) ==
    LET W == Max2(0, w.x1 - w.x0)
        H == Max2(0, w.y1 - w.y0)
        baseTop == fullH - ROI_H(fullH)
    IN  [raw |-> w.text, text |-> DigitsOnly(w.text),
         x |-> w.x0, y |-> baseTop + w.y0, w |-> W, h |-> H,
         cx2 |-> 2 * w.x0 + W, cy2 |-> 2 * (baseTop + w.y0) + H, conf |-> w.conf]

\* detectNurreBig's filter with the height limits left unrounded.
NurreKeepUnrounded(o, fullH) ==
    /\ IsItemNumber(o.text)
    /\ o.conf >= 55
    /\ o.h >= 20
    /\ 1000 * o.h >= 18 * fullH
    /\ 100 * o.h <= 12 * fullH
    /\ AspectWithin(o, 6, 100)

\* MIN_CONF 55, MIN_H max(20, round(0.018 H)), MAX_H round(0.12 H),
\* MIN_AR 0.6, MAX_AR 10.0.
NurreKeep(o, fullH) ==
    /\ IsItemNumber(o.text)
    /\ o.conf >= 55
    /\ o.h >= Max2(20, RoundMilli(18 * fullH))
    /\ o.h <= RoundMilli(120 * fullH)
    /\ AspectWithin(o, 6, 100)

detectNurreBig(roiWords, fullW, fullH) ==
    LET mapped == [i \in 1..Len(roiWords) |-> NurreWord(roiWords[i], fullH)]
        sorted == StableSort(SelectSeq(mapped, LAMBDA o : NurreKeep(o, fullH)), "nurre")
    IN  Output(SubSeq(sorted, 1, Min2(3, Len(sorted))))

\* The selector read in the opposite order: header, then body, then query.
StrategyHeaderFirst(req) ==
    IF req.h # "" THEN req.h
    ELSE IF req.b # "" THEN req.b
    ELSE IF req.q # "" THEN req.q
    ELSE "presto"

\* The route's strategy selector: query || body || header || 'presto'.
Strategy(req) ==
    IF req.q # "" THEN req.q
    ELSE IF req.b # "" THEN req.b
    ELSE IF req.h # "" THEN req.h
    ELSE "presto"

\* res.json(...) of the route's last lines: status 200 with the full body.
Answer(out, req) ==
    [status |-> 200, detections |-> out.detections, itemNumbers |-> out.itemNumbers,
     full |-> TRUE, imageWidth |-> req.imgW, imageHeight |-> req.imgH,
     strategyUsed |-> Strategy(req)]

\* res.json({ detections: [], itemNumbers: [] }): no file, or the catch block.
AnswerEmptyAsError == 
    [status |-> 500, detections |-> <<>>, itemNumbers |-> <<>>,
     full |-> FALSE, imageWidth |-> 0, imageHeight |-> 0, strategyUsed |-> ""]

AnswerEmpty ==
    [status |-> 200, detections |-> <<>>, itemNumbers |-> <<>>,
     full |-> FALSE, imageWidth |-> 0, imageHeight |-> 0, strategyUsed |-> ""]

\* The nurre branch's fallback: presto's output replaces an empty nurre output.
FallbackNever(nurreOut, prestoOut) == nurreOut

Fallback(nurreOut, prestoOut) ==
    IF prestoOut.itemNumbers # <<>> THEN prestoOut ELSE nurreOut

\* ocrRecognize: createWorker, setParameters, recognize, terminate, awaited in
\* that order with no try/finally. site names the call that throws, "none"
\* when none does. The result counts the workers created and those left
\* running.
OcrSites == {"createWorker", "setParameters", "recognize"}

ocrRecognize(site) ==
    [acquired |-> IF site = "createWorker" THEN 0 ELSE 1,
     live |-> IF site \in {"setParameters", "recognize"} THEN 1 ELSE 0]

\* Where a strategy named by req.fault can throw: in ocrRecognize, and for
\* nurre also in its sharp calls, before any worker exists.
ThrowSites(req, ran) ==
    IF \E k \in 1..Len(ran) : ran[k] = req.fault
    THEN OcrSites \cup (IF req.fault = "nurre" THEN {"sharp"} ELSE {})
    ELSE {"none"}

\* The workers of one run of the route: each strategy that ran called
\* ocrRecognize once, unless it threw before that.
RECURSIVE RouteWorkers(_, _, _)
RouteWorkers(req, ran, site) ==
    IF ran = <<>> THEN [acquired |-> 0, live |-> 0]
    ELSE LET rest == RouteWorkers(req, Tail(ran), site)
             this == IF Head(ran) # req.fault THEN ocrRecognize("none")
                     ELSE IF site = "sharp" THEN [acquired |-> 0, live |-> 0]
                     ELSE ocrRecognize(site)
         IN  [acquired |-> this.acquired + rest.acquired, live |-> this.live + rest.live]

\* The whole handler. req.fault names the awaited call that throws, if any:
\* "preprocess" (sharp metadata / preCommon), "nurre" (inside detectNurreBig),
\* "presto" (inside detectPresto). req.words is what the recognizer returns for
\* the whole preprocessed image, req.roiWords what it returns for the ROI.
\* The result is the response and the strategies that ran.
DetectRoute(req) ==
    IF ~req.hasFile THEN [resp |-> AnswerEmpty, ran |-> <<>>]
    ELSE IF req.fault = "preprocess" THEN [resp |-> AnswerEmpty, ran |-> <<>>]
    ELSE IF Strategy(req) = "nurre" THEN
        IF req.fault = "nurre" THEN [resp |-> AnswerEmpty, ran |-> <<"nurre">>]
        ELSE LET n == detectNurreBig(req.roiWords, req.imgW, req.imgH)
             IN  IF n.itemNumbers = <<>>
                 THEN IF req.fault = "presto"
                      THEN [resp |-> AnswerEmpty, ran |-> <<"nurre", "presto">>]
                      ELSE [resp |-> Answer(Fallback(n, detectPresto(req.words, req.imgW, req.imgH)), req),
                            ran |-> <<"nurre", "presto">>]
                 ELSE [resp |-> Answer(n, req), ran |-> <<"nurre">>]
    ELSE IF req.fault = "presto" THEN [resp |-> AnswerEmpty, ran |-> <<"presto">>]
         ELSE [resp |-> Answer(detectPresto(req.words, req.imgW, req.imgH), req),
               ran |-> <<"presto">>]

(***************************************************************************)
(* Detection inputs: what the recognizer (a black box) may return           *)
(***************************************************************************)
MaxWords == 3

MaxRoiWords == 2

Txt(a, b, c) == <<a, b, c>>

\* Words of the whole image (1500 px wide). The first four are 60 x 30 px near
\* the left edge, with vertical centers 115, 125, 145, 165. Then one in mid
\* image, one with a non-digit, one of confidence 59, one 40 px tall (too tall
\* for a 600 px image) and one 20 px wide (aspect 0.67).
WordPool ==
    { [text |-> Txt("1", "0", "1"), x0 |-> 50, y0 |-> 100, x1 |-> 110, y1 |-> 130, conf |-> 80],
      [text |-> Txt("1", "0", "2"), x0 |-> 60, y0 |-> 110, x1 |-> 120, y1 |-> 140, conf |-> 90],
      [text |-> Txt("1", "0", "3"), x0 |-> 50, y0 |-> 130, x1 |-> 110, y1 |-> 160, conf |-> 70],
      [text |-> Txt("1", "0", "4"), x0 |-> 40, y0 |-> 150, x1 |-> 100, y1 |-> 180, conf |-> 85],
      [text |-> Txt("1", "0", "5"), x0 |-> 700, y0 |-> 100, x1 |-> 760, y1 |-> 130, conf |-> 95],
      [text |-> Txt("1", "x", "6"), x0 |-> 50, y0 |-> 100, x1 |-> 110, y1 |-> 130, conf |-> 99],
      [text |-> Txt("1", "0", "7"), x0 |-> 50, y0 |-> 100, x1 |-> 110, y1 |-> 130, conf |-> 59],
      [text |-> Txt("1", "0", "8"), x0 |-> 50, y0 |-> 100, x1 |-> 110, y1 |-> 140, conf |-> 90],
      [text |-> Txt("1", "0", "9"), x0 |-> 50, y0 |-> 100, x1 |-> 70, y1 |-> 130, conf |-> 90] }

\* Words of the bottom-left region, in region coordinates.
RoiWordPool ==
    { [text |-> Txt("2", "0", "1"), x0 |-> 100, y0 |-> 50, x1 |-> 220, y1 |-> 90, conf |-> 88],
      [text |-> Txt("2", "0", "2"), x0 |-> 100, y0 |-> 100, x1 |-> 220, y1 |-> 140, conf |-> 60],
      [text |-> Txt("2", "0", "3"), x0 |-> 100, y0 |-> 50, x1 |-> 220, y1 |-> 90, conf |-> 30] }

MaxNurreWords == 4

\* Words of the bottom-left region for the requests that exercise nurre alone:
\* three on one line (two at the same place), one above them, one 22 px and
\* one 149 px tall, one as low as the line but taller, one of confidence 54.
NurreWordPool ==
    { [text |-> Txt("3", "0", "1"), x0 |-> 100, y0 |-> 50, x1 |-> 220, y1 |-> 90, conf |-> 88],
      [text |-> Txt("3", "0", "2"), x0 |-> 100, y0 |-> 100, x1 |-> 220, y1 |-> 140, conf |-> 60],
      [text |-> Txt("3", "0", "3"), x0 |-> 50, y0 |-> 100, x1 |-> 170, y1 |-> 140, conf |-> 70],
      [text |-> Txt("3", "0", "4"), x0 |-> 100, y0 |-> 140, x1 |-> 200, y1 |-> 162, conf |-> 80],
      [text |-> Txt("3", "0", "5"), x0 |-> 100, y0 |-> 10, x1 |-> 300, y1 |-> 159, conf |-> 80],
      [text |-> Txt("3", "0", "6"), x0 |-> 100, y0 |-> 150, x1 |-> 220, y1 |-> 190, conf |-> 54],
      [text |-> Txt("3", "0", "7"), x0 |-> 100, y0 |-> 90, x1 |-> 220, y1 |-> 150, conf |-> 60],
      [text |-> Txt("3", "0", "8"), x0 |-> 100, y0 |-> 100, x1 |-> 220, y1 |-> 140, conf |-> 90] }

NurreHeights == {600, 1240}

\* The sequences of at most n distinct elements of pool.
RECURSIVE SeqsUpTo(_, _)
SeqsUpTo(pool, n) ==
    IF n = 0 THEN {<<>>}
    ELSE LET shorter == SeqsUpTo(pool, n - 1)
         IN  shorter \cup
             { Append(s, e) : s \in { t \in shorter : Len(t) = n - 1 },
                              e \in pool }

NoRepeat(s) == \A i, j \in 1..Len(s) : i # j => s[i] # s[j]

WordLists(pool, n) == { s \in SeqsUpTo(pool, n) : NoRepeat(s) }

ImageHeights == {600, 2000}

\* What detectItemNumbersCatalog posts: the form holds the image alone, the
\* URL has no query and no header is set.
CatalogSelectors == [q |-> "", b |-> "", h |-> ""]

NoFile ==
    [hasFile |-> FALSE, q |-> "", b |-> "", h |-> "", imgW |-> 0, imgH |-> 0,
     words |-> <<>>, roiWords |-> <<>>, fault |-> "none"]

\* Requests with a file. The region's words exist only when nurre is selected.
DetectRequests ==
    { r \in [hasFile : {TRUE}, q : {"", "nurre"}, b : {"", "presto"}, h : {"", "nurre"},
             imgW : {1500}, imgH : ImageHeights,
             words : WordLists(WordPool, MaxWords),
             roiWords : WordLists(RoiWordPool, MaxRoiWords),
             fault : {"none", "preprocess", "nurre", "presto"}] :
        Strategy(r) # "nurre" => (r.roiWords = <<>> /\ r.fault # "nurre") }

\* Requests that select nurre by the query and leave the whole image empty.
NurreRequests ==
    [hasFile : {TRUE}, q : {"nurre"}, b : {""}, h : {""},
     imgW : {1500}, imgH : NurreHeights,
     words : {<<>>},
     roiWords : WordLists(NurreWordPool, MaxNurreWords),
     fault : {"none"}]

NoResp == [status |-> 0]

NoWorkers == [acquired |-> 0, live |-> 0]

DetectInit ==
    /\ dreq = NoFile
    /\ dresp = NoResp
    /\ dtrace = <<>>
    /\ workers = NoWorkers

\* POST /api/detect-item-numbers, from the request to its response.
DetectItemNumbers(req) ==
    /\ dresp = NoResp
    /\ dreq' = req
    /\ dresp' = DetectRoute(req).resp
    /\ dtrace' = DetectRoute(req).ran
    /\ \E site \in ThrowSites(req, DetectRoute(req).ran) :
          workers' = RouteWorkers(req, DetectRoute(req).ran, site)
    /\ UNCHANGED <<cropVars, uiVars>>

\* The response is sent; the server waits for the next request.
DetectDone ==
    /\ dresp # NoResp
    /\ dreq' = NoFile
    /\ dresp' = NoResp
    /\ dtrace' = <<>>
    /\ workers' = NoWorkers
    /\ UNCHANGED <<cropVars, uiVars>>

(***************************************************************************)
(* ExtractionEngine: POST /api/multiple-crop-mouldings                     *)
(***************************************************************************)
MaxSlots == 2

MaxCropReqs == 2

MaxCrops == 2

MaxClock == 1

Slots == 1..MaxSlots

Upper(ch) ==
    CASE ch = "a" -> "A"
      [] ch = "b" -> "B"
      [] OTHER -> ch

AlphaNum == Digits \cup {"a", "b", "A", "B"}

RECURSIVE Join(_)
Join(chars) == IF chars = <<>> THEN "" ELSE Head(chars) \o Join(Tail(chars))

\* String(c.itemNumber || '').replace(/[^A-Za-z0-9]/g, '').toUpperCase()
Stripped(label) ==
    Join([i \in 1..Len(SelectSeq(label, LAMBDA ch : ch \in AlphaNum)) |->
            Upper(SelectSeq(label, LAMBDA ch : ch \in AlphaNum)[i])])

\* ... || `CROP${Date.now()}`
Clean(label, now) ==
    IF Stripped(label) = "" THEN "CROP" \o ToString(now) ELSE Stripped(label)

\* The k-th candidate name: `${clean}.png`, then `${clean}_${k}.png`.
FileBase(clean, k) ==
    IF k = 0 THEN clean \o ".png" ELSE clean \o "_" \o ToString(k) \o ".png"

\* fs.existsSync(filePath)
ExistsNever(dir, name) == FALSE

existsSync(dir, name) == name \in dir

\* The names the collision loop of a request tests against: those of the
\* directory, which all requests share.
NamesOfRequest(slot) == { slot.results[k].id : k \in 1..Len(slot.results) }

NamesSeen(slot) == fs

\* let k = 1; while (fs.existsSync(filePath)) fileBase = `${clean}_${k++}.png`
RECURSIVE FreeFileBase(_, _, _)
FreeFileBase(clean, k, dir) ==
    IF existsSync(dir, FileBase(clean, k))
    THEN FreeFileBase(clean, k + 1, dir)
    ELSE FileBase(clean, k)

\* itemNumber values a request may carry: "ab-12!", "AB12", "--".
CropLabels ==
    { <<"a", "b", "-", "1", "2", "!">>, <<"A", "B", "1", "2">>, <<"-", "-">> }

CropLists == SeqsUpTo(CropLabels, MaxCrops)

\* A request: the uploaded file (or none), and the multipleCrops field, which is
\* well-formed JSON (crops: the itemNumber of each box) or not.
CropRequests ==
    { [hasFile |-> TRUE, wellFormed |-> TRUE, crops |-> c] : c \in CropLists }
    \cup { [hasFile |-> FALSE, wellFormed |-> TRUE, crops |-> c] :
             c \in { l \in CropLists : Len(l) = MaxCrops /\ \A i \in 1..Len(l) : l[i] = l[1] } }
    \cup { [hasFile |-> f, wellFormed |-> FALSE, crops |-> <<>>] : f \in BOOLEAN }

IdleSlot ==
    [pc |-> "idle", req |-> [hasFile |-> FALSE, wellFormed |-> FALSE, crops |-> <<>>],
     i |-> 0, results |-> <<>>, outcomes |-> <<>>,
     resp |-> [status |-> 0, croppedMouldings |-> <<>>]]

NoWrite == [name |-> "", label |-> <<>>, before |-> {}, now |-> 0]

\* Math.cos(theta) and Math.sin(theta) are kept in units of 1 / TrigDen.
TrigDen == 10000

\* The rotations of the requests: c.rotation in hundredths of a degree, with
\* the cosine and the sine of theta = -rotation * PI / 180.
Thetas ==
    { [rotation |-> 0, cos |-> 10000, sin |-> 0],
      [rotation |-> 15, cos |-> 10000, sin |-> -26],
      [rotation |-> 1500, cos |-> 9659, sin |-> -2588],
      [rotation |-> -3000, cos |-> 8660, sin |-> 5000],
      [rotation |-> 4500, cos |-> 7071, sin |-> -7071],
      [rotation |-> 9000, cos |-> 0, sin |-> -10000],
      [rotation |-> -9000, cos |-> 0, sin |-> 10000],
      [rotation |-> 18000, cos |-> -10000, sin |-> 0] }

\* rotPt(x, y, W / 2, H / 2, theta) for the point (x2 / 2, y2 / 2), in units
\* of 1 / (2 * TrigDen).
RotPt2(x2, y2, W, H, t) ==
    [x |-> t.cos * (x2 - W) - t.sin * (y2 - H) + W * TrigDen,
     y |-> t.sin * (x2 - W) + t.cos * (y2 - H) + H * TrigDen]

\* Math.round(n / d) for d > 0: the nearest integer, halves upwards.
RoundDiv(n, d) == (2 * n + d) \div (2 * d)

MinOf(S) == CHOOSE m \in S : \A n \in S : m <= n

MaxOf(S) == CHOOSE m \in S : \A n \in S : m >= n

\* A box centre taken half a pixel high for odd sizes.
BoxMid2Up(b0, size) == 2 * (b0 + (size + 1) \div 2)

\* bx0 + bw0 / 2, doubled.
BoxMid2(b0, size) == 2 * b0 + size

\* An extraction size that is not cut to the canvas.
ExtractSizeUncut(size, R) == size

\* Math.min(bw0, RW)
ExtractSize(size, R) == Min2(size, R)

\* The rectangle handed to extract for crop c of a bitmap W x H rotated by
\* t: left, top, width, height, with the rotated canvas RW x RH, the corner
\* minima and the values before the clamps. c is in units of 1 / Sub pixel.
ExtractRect(W, H, c, t) ==
    LET bw0 == Max2(1, c.width \div Sub)
        bh0 == Max2(1, c.height \div Sub)
        bx0 == Max2(0, c.x \div Sub)
        by0 == Max2(0, c.y \div Sub)
        corners == { RotPt2(0, 0, W, H, t), RotPt2(2 * W, 0, W, H, t),
                     RotPt2(2 * W, 2 * H, W, H, t), RotPt2(0, 2 * H, W, H, t) }
        minX == MinOf({ p.x : p \in corners })
        minY == MinOf({ p.y : p \in corners })
        maxX == MaxOf({ p.x : p \in corners })
        maxY == MaxOf({ p.y : p \in corners })
        RW == RoundDiv(maxX - minX, 2 * TrigDen)
        RH == RoundDiv(maxY - minY, 2 * TrigDen)
        ctr == RotPt2(BoxMid2(bx0, bw0), BoxMid2(by0, bh0), W, H, t)
        rx == RoundDiv(ctr.x - minX - bw0 * TrigDen, 2 * TrigDen)
        ry == RoundDiv(ctr.y - minY - bh0 * TrigDen, 2 * TrigDen)
        bw == ExtractSize(bw0, RW)
        bh == ExtractSize(bh0, RH)
    IN  [left |-> Max2(0, Min2(RW - bw, rx)), top |-> Max2(0, Min2(RH - bh, ry)),
         width |-> bw, height |-> bh, RW |-> RW, RH |-> RH,
         minX |-> minX, minY |-> minY, rx |-> rx, ry |-> ry, bw0 |-> bw0, bh0 |-> bh0]

NoRect ==
    [left |-> 0, top |-> 0, width |-> 0, height |-> 0, RW |-> 0, RH |-> 0,
     minX |-> 0, minY |-> 0, rx |-> 0, ry |-> 0, bw0 |-> 0, bh0 |-> 0]

\* No crop is at hand.
NoExtract ==
    [img |-> [w |-> 0, h |-> 0], crop |-> [x |-> 0, y |-> 0, width |-> 0, height |-> 0],
     theta |-> [rotation |-> 0, cos |-> 0, sin |-> 0], done |-> FALSE, rect |-> NoRect]

\* The loop body of the extraction route up to its call of sharp, for the
\* crop at hand.
CropGeometry ==
    /\ extract.img.w > 0
    /\ ~extract.done
    /\ extract' = [extract EXCEPT
                      !.done = TRUE,
                      !.rect = ExtractRect(extract.img.w, extract.img.h,
                                           extract.crop, extract.theta)]
    /\ UNCHANGED <<creq, fs, clock, served, wlog, detVars, uiVars>>

\* The state of the extraction route before any request.
CropIdle ==
    /\ creq = [s \in Slots |-> IdleSlot]
    /\ fs = {}
    /\ clock = 0
    /\ served = 0
    /\ wlog = NoWrite

CropInit ==
    /\ CropIdle
    /\ extract = NoExtract

ErrorResp(code) == [status |-> code, croppedMouldings |-> <<>>]

\* JSON.parse(req.body.multipleCrops || '[]') throws (the outer catch answers
\* 500); then if (!req.file) answers 400. Otherwise the handler awaits metadata.
ValidateNothing(req) == 0

Validate(req) ==
    IF ~req.wellFormed THEN 500
    ELSE IF ~req.hasFile THEN 400
    ELSE 0

CropReceive(s, req) ==
    /\ creq[s].pc = "idle"
    /\ served < MaxCropReqs
    /\ served' = served + 1
    /\ creq' = [creq EXCEPT ![s] =
                  IF Validate(req) # 0
                  THEN [IdleSlot EXCEPT !.pc = "done", !.req = req,
                                        !.resp = ErrorResp(Validate(req))]
                  ELSE [IdleSlot EXCEPT !.pc = "meta", !.req = req]]
    /\ UNCHANGED <<fs, clock, wlog, extract, detVars, uiVars>>

\* The loop is left: unlink the upload, res.json({ croppedMouldings: results }).
Finish(slot) ==
    [slot EXCEPT !.pc = "done",
                 !.resp = [status |-> 200, croppedMouldings |-> slot.results]]

\* After box i: the next box's geometry is computed and its extraction awaited,
\* or the loop is left.
Advance(slot) ==
    IF slot.i < Len(slot.req.crops)
    THEN [slot EXCEPT !.pc = "extract", !.i = slot.i + 1]
    ELSE Finish(slot)

\* await base.metadata() settles: a rejection goes to the outer catch (500).
CropMetadata(s, ok) ==
    /\ creq[s].pc = "meta"
    /\ creq' = [creq EXCEPT ![s] =
                  IF ok THEN Advance(creq[s])
                  ELSE [creq[s] EXCEPT !.pc = "done", !.resp = ErrorResp(500)]]
    /\ UNCHANGED <<fs, clock, served, wlog, extract, detVars, uiVars>>

\* results.push({ id: fileBase, imageUrl, detectedNumber: c.itemNumber })
Pushed(slot, fileBase) ==
    Append(slot.results, [id |-> fileBase, detectedNumber |-> slot.req.crops[slot.i]])

\* The catch of the per-box try: the box is logged and omitted.
BoxFailedAborts(slot) == Finish([slot EXCEPT !.outcomes = Append(@, FALSE)])

BoxFailed(slot) == Advance([slot EXCEPT !.outcomes = Append(@, FALSE)])

\* The awaited extraction of box i settles. "ok": the name is chosen and the
\* file written in the same turn of the event loop; "extractFails": sharp
\* rejects; "writeFails": the name is chosen and writeFileSync throws.
CropExtracted(s, outcome) ==
    /\ creq[s].pc = "extract"
    /\ LET slot == creq[s]
           label == slot.req.crops[slot.i]
           fileBase == FreeFileBase(Clean(label, clock), 0, NamesSeen(slot))
       IN  IF outcome = "ok"
           THEN /\ fs' = fs \cup {fileBase}
                /\ wlog' = [name |-> fileBase, label |-> label, before |-> fs, now |-> clock]
                /\ creq' = [creq EXCEPT ![s] =
                              Advance([slot EXCEPT !.results = Pushed(slot, fileBase),
                                                   !.outcomes = Append(@, TRUE)])]
           ELSE /\ creq' = [creq EXCEPT ![s] = BoxFailed(slot)]
                /\ UNCHANGED <<fs, wlog>>
    /\ UNCHANGED <<clock, served, extract, detVars, uiVars>>

\* The response has been sent and read; the slot is free again.
CropClose(s) ==
    /\ creq[s].pc = "done"
    /\ creq' = [creq EXCEPT ![s] = IdleSlot]
    /\ UNCHANGED <<fs, clock, served, wlog, extract, detVars, uiVars>>

\* Time passes.
Tick ==
    /\ clock < MaxClock
    /\ clock' = clock + 1
    /\ UNCHANGED <<creq, fs, served, wlog, extract, detVars, uiVars>>

(***************************************************************************)
(* Client: BoxStore (client/src/App.tsx)                                   *)
(*                                                                         *)
(* Image-space lengths are counted in units of 1/Sub pixel, so that the    *)
(* quotient (screen - pan) / scale of a pointer position is a number of    *)
(* the model; Px(n) is n pixels.                                           *)
(***************************************************************************)
MaxFiles == 2

MaxBoxes == 2

MaxDetected == 1

MaxUploads == 1

MaxEdits == 1

MaxGestures == 2

MaxMoves == 2

MaxClicks == 2

MaxListOps == 2

ZoomSpan == 1

Px(n) == n * Sub

\* Math.round(v) of a length v: the nearest whole pixel, halves upwards.
RoundPx(v) == ((2 * v + Sub) \div (2 * Sub)) * Sub

\* Math.round(n * pct / 100) for integers n, pct >= 0.
RoundPct(n, pct) == (n * pct + 50) \div 100

\* The uploaded bitmaps, by their size in pixels.
Images == { [w |-> 475, h |-> 200] }

Box(id, x, y, width, height, itemNumber, flipVertical) ==
    [id |-> id, x |-> Px(x), y |-> Px(y), width |-> Px(width), height |-> Px(height),
     itemNumber |-> itemNumber, rotation |-> 0, flipVertical |-> flipVertical]

\* The catalog seeding with the labels handed out bottom-up.
CatalogBoxesReversed(itemNumbers) ==
    LET nums == IF Len(itemNumbers) # 0 THEN itemNumbers ELSE <<"">>
    IN  [k \in 1..Len(nums) |->
            Box(k, 50, 50 + (k - 1) * (120 + 10), 420, 120, nums[Len(nums) + 1 - k], FALSE)]

\* detectItemNumbersCatalog: one 420 x 120 box per item number, stacked with a
\* margin of 10 from (50, 50); a single box with an empty label for none.
CatalogBoxes(itemNumbers) ==
    LET nums == IF Len(itemNumbers) # 0 THEN itemNumbers ELSE <<"">>
    IN  [k \in 1..Len(nums) |->
            Box(k, 50, 50 + (k - 1) * (120 + 10), 420, 120, nums[k], FALSE)]

\* Its catch block: the request or the parsing of its answer threw.
CatalogFallback == << Box(1, 50, 50, 400, 120, "", FALSE) >>

\* The screenshot seeding with one box per item number of the answer.
ScreenshotBoxesPerNumber(img, itemNumbers) ==
    LET colW == img.w \div 2
        padX == RoundPct(colW, 5)
        innerW == colW - padX * 2
        topY == RoundPct(img.h, 8)
        topH == RoundPct(img.h, 60)
    IN  [k \in 1..Min2(2, Len(itemNumbers)) |->
            Box(k, (k - 1) * colW + padX, topY + RoundPct(topH, 5), innerW,
                RoundPct(topH, 75), itemNumbers[k], TRUE)]

\* detectFromScreenshot: two boxes, one per column of the image; the labels
\* are the first two item numbers of the answer, where it has them.
ScreenshotBoxes(img, itemNumbers) ==
    LET colW == img.w \div 2
        padX == RoundPct(colW, 5)
        innerW == colW - padX * 2
        topY == RoundPct(img.h, 8)
        topH == RoundPct(img.h, 60)
        label(k) == IF k <= Len(itemNumbers) /\ itemNumbers[k] # ""
                    THEN itemNumbers[k] ELSE ""
    IN  [k \in 1..2 |->
            Box(k, (k - 1) * colW + padX, topY + RoundPct(topH, 5), innerW,
                RoundPct(topH, 75), label(k), TRUE)]

\* What a detection request of the client ends with: an answer carrying item
\* numbers, or an exception (threw).
ItemLists == { SubSeq(<<"101", "102", "103", "104">>, 1, n) : n \in 0..MaxDetected }

SeedBoxes(task, outcome) ==
    IF task.mode = "screenshot"
    THEN ScreenshotBoxes(task.img, IF outcome.threw THEN <<>> ELSE outcome.itemNumbers)
    ELSE IF outcome.threw THEN CatalogFallback ELSE CatalogBoxes(outcome.itemNumbers)

NoBox == Box(0, 0, 0, 0, 0, "", FALSE)

NoGesture ==
    [isDragging |-> FALSE, isResizing |-> FALSE, isPanning |-> FALSE,
     dragStart |-> [x |-> 0, y |-> 0], panStart |-> [x |-> 0, y |-> 0],
     resizeHandle |-> "", resizeStartBox |-> NoBox]

NoOp == [name |-> "none", index |-> 0, before |-> <<>>]

\* currentStep, as the kind of text and the number in it.
StepText(kind, count) == [kind |-> kind, count |-> count]

\* No save has run: isProcessing false, currentStep ''. Besides the state of
\* the component, the record holds the position of the running call (pc, i,
\* payload, all) and its history: the image indices requested (sent), the
\* requests not yet answered (inflight), the boxes submitted and the calls
\* of the handler that have not returned.
NoSave ==
    [isProcessing |-> FALSE, currentStep |-> StepText("", 0),
     pc |-> "idle", i |-> 0, payload |-> <<>>, all |-> 0,
     sent |-> <<>>, inflight |-> {}, submitted |-> 0, calls |-> 0, runs |-> 0,
     result |-> "none", failedAt |-> -1]

UIInit ==
    /\ save = NoSave
    /\ cursor = [i \in 0..(MaxFiles - 1) |-> ""]
    /\ files = <<>>
    /\ boxesMap = << >>
    /\ activeIdx = 0
    /\ activeCropId = 0
    /\ mode = "catalog"
    /\ viewMode = "single"
    /\ zoom4 = 4
    /\ panOffset = [x |-> 0, y |-> 0]
    /\ gesture = NoGesture
    /\ pending = {}
    /\ pointerOver = -1
    /\ budget = [uploads |-> 0, edits |-> 0, gestures |-> 0, clicks |-> 0, lists |-> 0, moves |-> 0]
    /\ lastOp = NoOp

\* boxesMap[index] || []
BoxesAt(index) == IF index \in DOMAIN boxesMap THEN boxesMap[index] ELSE <<>>

\* The operation just performed on the box list of image index, with the list
\* as it was before; the server's part is left alone.
Logged(name, index) ==
    /\ lastOp' = [name |-> name, index |-> index, before |-> BoxesAt(index)]
    /\ UNCHANGED <<detVars, cropVars, save, cursor>>

\* An operation that is none on a box list.
NotLogged ==
    /\ lastOp' = NoOp
    /\ UNCHANGED <<detVars, cropVars, save, cursor>>

\* A click on a control outside the canvases: the pointer is over none of them.
OffCanvas == pointerOver = -1

\* The map without the spread of prev: only the list written.
WithBoxesAlone(index, list) ==
    [k \in {index} |-> list]

\* setBoxesMap(prev => ({ ...prev, [index]: list }))
WithBoxes(index, list) ==
    [k \in DOMAIN boxesMap \cup {index} |-> IF k = index THEN list ELSE boxesMap[k]]

HasBox(list, id) == \E k \in 1..Len(list) : list[k].id = id

\* boxes.find(b => b.id === id), for a list that holds one
FindBox(list, id) == list[CHOOSE k \in 1..Len(list) : list[k].id = id /\ \A j \in 1..(k - 1) : list[j].id # id]

\* Image indices with a rendered row list or canvas.
Rendered ==
    IF viewMode = "single"
    THEN IF Len(files) > 0 THEN {activeIdx} ELSE {}
    ELSE 0..(Len(files) - 1)

SetMode(m) ==
    /\ OffCanvas
    /\ budget.clicks < MaxClicks
    /\ budget' = [budget EXCEPT !.clicks = @ + 1]
    /\ mode' = m
    /\ UNCHANGED <<files, boxesMap, activeIdx, activeCropId, viewMode, viewVars, pending>>
    /\ NotLogged

SetViewMode(v) ==
    /\ OffCanvas
    /\ budget.clicks < MaxClicks
    /\ budget' = [budget EXCEPT !.clicks = @ + 1]
    /\ viewMode' = v
    /\ UNCHANGED <<files, boxesMap, activeIdx, activeCropId, mode, viewVars, pending>>
    /\ NotLogged

\* handleMultiUpload: at most 5 files are taken; a detection is started for
\* each, all in flight together.
handleMultiUploadWithin(list, batches) ==
    LET picked == SubSeq(list, 1, Min2(Len(list), 5))
    IN  /\ OffCanvas
        /\ Len(picked) > 0
        /\ budget.uploads < batches
        /\ budget' = [budget EXCEPT !.uploads = @ + 1]
        /\ files' = picked
        /\ activeIdx' = 0
        /\ zoom4' = 4
        /\ panOffset' = [x |-> 0, y |-> 0]
        /\ pending' = pending \cup
              { [idx |-> i - 1, mode |-> mode, img |-> picked[i], batch |-> budget.uploads + 1] :
                  i \in 1..Len(picked) }
        /\ UNCHANGED <<boxesMap, activeCropId, mode, viewMode, gesture, pointerOver>>
        /\ NotLogged

handleMultiUpload(list) == handleMultiUploadWithin(list, MaxUploads)

\* A detection task ends: setBoxesMap(prev => ({ ...prev, [idx]: boxes })).
DetectionSettled(task, outcome) ==
    /\ task \in pending
    /\ pending' = pending \ {task}
    /\ boxesMap' = WithBoxes(task.idx, SeedBoxes(task, outcome))
    /\ UNCHANGED <<files, activeIdx, activeCropId, mode, viewMode, viewVars, budget>>
    /\ Logged("seed", task.idx)

\* A new box numbered by the length of the list.
NewBoxByCount(prev) ==
    LET nid == Len(prev) + 1
    IN  Box(nid, 60 + nid * 10, 60 + nid * 10, 400, 120, "", mode = "screenshot")

\* addCropBox(index): the id is the largest id of the list plus one.
NewBox(prev) ==
    LET ids == { prev[k].id : k \in 1..Len(prev) } \cup {0}
        nid == (CHOOSE m \in ids : \A n \in ids : n <= m) + 1
    IN  Box(nid, 60 + nid * 10, 60 + nid * 10, 400, 120, "", mode = "screenshot")

\* "+ Add Box": addCropBox() in the toolbar, addCropBox(i) in the all view.
addCropBox(index) ==
    /\ OffCanvas
    /\ Len(files) > 0
    /\ index = activeIdx \/ (viewMode = "all" /\ index \in Rendered)
    /\ Len(BoxesAt(index)) < MaxBoxes
    /\ budget.lists < MaxListOps
    /\ budget' = [budget EXCEPT !.lists = @ + 1]
    /\ boxesMap' = WithBoxes(index, Append(BoxesAt(index), NewBox(BoxesAt(index))))
    /\ UNCHANGED <<files, activeIdx, activeCropId, mode, viewMode, viewVars, pending>>
    /\ Logged("add", index)

\* removeCropBox's updater.
RemoveUnguarded(prev, id) == SelectSeq(prev, LAMBDA b : b.id # id)

Removed(prev, id) ==
    IF Len(prev) > 1 THEN SelectSeq(prev, LAMBDA b : b.id # id) ELSE prev

\* updateCropBox's updater: the fields of change replace those of box id.
Updated(prev, id, change) ==
    [k \in 1..Len(prev) |->
        IF prev[k].id # id THEN prev[k]
        ELSE [f \in DOMAIN prev[k] |->
                 IF f \in DOMAIN change THEN change[f] ELSE prev[k][f]]]

\* A control of the row of box id of image i. In the all view the handler first
\* calls setActiveIdx(i) and setActiveCropId(id); the store operation it then
\* calls was created by the render and updates the image focused at the render.
RowFocus(i, id) ==
    IF viewMode = "all"
    THEN activeIdx' = i /\ activeCropId' = id
    ELSE UNCHANGED <<activeIdx, activeCropId>>

\* The remove button of a row, shown while the row's list has several boxes.
RemoveButton(i, id) ==
    /\ OffCanvas
    /\ i \in Rendered
    /\ HasBox(BoxesAt(i), id)
    /\ Len(BoxesAt(i)) > 1
    /\ budget.lists < MaxListOps
    /\ budget' = [budget EXCEPT !.lists = @ + 1]
    /\ RowFocus(i, id)
    /\ boxesMap' = WithBoxes(activeIdx, Removed(BoxesAt(activeIdx), id))
    /\ UNCHANGED <<files, mode, viewMode, viewVars, pending>>
    /\ Logged("remove", activeIdx)

\* The change a row control asks for, computed from the row's box.
RowChange(kind, box, text) ==
    CASE kind = "label" -> [itemNumber |-> text]
      [] kind = "rotateLeft" -> [rotation |-> box.rotation - 1]
      [] kind = "rotateRight" -> [rotation |-> box.rotation + 1]
      [] kind = "flip" -> [flipVertical |-> ~box.flipVertical]

RowKinds == {"label", "rotateLeft", "rotateRight", "flip"}

LabelInputs == {"A1"}

\* The label input, the two rotation buttons and the flip button of a row.
RowControl(i, id, kind, text) ==
    /\ OffCanvas
    /\ i \in Rendered
    /\ HasBox(BoxesAt(i), id)
    /\ budget.edits < MaxEdits
    /\ budget' = [budget EXCEPT !.edits = @ + 1]
    /\ RowFocus(i, id)
    /\ boxesMap' = WithBoxes(activeIdx,
                      Updated(BoxesAt(activeIdx), id, RowChange(kind, FindBox(BoxesAt(i), id), text)))
    /\ UNCHANGED <<files, mode, viewMode, viewVars, pending>>
    /\ Logged("edit", activeIdx)

\* A click on a row: it selects the box (and, in the all view, focuses its image).
RowClick(i, id) ==
    /\ OffCanvas
    /\ budget.clicks < MaxClicks
    /\ budget' = [budget EXCEPT !.clicks = @ + 1]
    /\ i \in Rendered
    /\ HasBox(BoxesAt(i), id)
    /\ activeCropId' = id
    /\ activeIdx' = IF viewMode = "all" THEN i ELSE activeIdx
    /\ UNCHANGED <<files, boxesMap, mode, viewMode, viewVars, pending>>
    /\ NotLogged

\* setActiveByThumb(i): a thumbnail, Prev or Next.
setActiveByThumb(i) ==
    /\ OffCanvas
    /\ budget.clicks < MaxClicks
    /\ budget' = [budget EXCEPT !.clicks = @ + 1]
    /\ i \in 0..(Len(files) - 1)
    /\ activeIdx' = i
    /\ zoom4' = 4
    /\ panOffset' = [x |-> 0, y |-> 0]
    /\ activeCropId' = 0
    /\ UNCHANGED <<files, boxesMap, mode, viewMode, gesture, pointerOver, pending>>
    /\ NotLogged

\* The Focus button of an image of the all view: setActiveIdx(i).
FocusButton(i) ==
    /\ OffCanvas
    /\ budget.clicks < MaxClicks
    /\ budget' = [budget EXCEPT !.clicks = @ + 1]
    /\ viewMode = "all"
    /\ i \in Rendered
    /\ activeIdx' = i
    /\ UNCHANGED <<files, boxesMap, activeCropId, mode, viewMode, viewVars, pending>>
    /\ NotLogged

\* Clear All.
ClearAll ==
    /\ OffCanvas
    /\ Len(files) > 0
    /\ files' = <<>>
    /\ boxesMap' = << >>
    /\ activeIdx' = 0
    /\ activeCropId' = 0
    /\ zoom4' = 4
    /\ panOffset' = [x |-> 0, y |-> 0]
    /\ UNCHANGED <<mode, viewMode, gesture, pointerOver, pending, budget>>
    /\ NotLogged

\* The change of a key pressed without regard to the modifier: a step of 1.
KeyChangeNoModifier(key, step, cur) ==
    CASE key = "ArrowLeft" -> [x |-> Max2(0, cur.x - Px(1))]
      [] key = "ArrowRight" -> [x |-> cur.x + Px(1)]
      [] key = "ArrowUp" -> [y |-> Max2(0, cur.y - Px(1))]
      [] key = "ArrowDown" -> [y |-> cur.y + Px(1)]
      [] key = "[" -> [rotation |-> cur.rotation - 1]
      [] key = "]" -> [rotation |-> cur.rotation + 1]

\* onKey, the window's keydown listener: it acts on the selected box of the
\* focused image. shift selects the step of 10.
KeyChange(key, step, cur) ==
    CASE key = "ArrowLeft" -> [x |-> Max2(0, cur.x - step)]
      [] key = "ArrowRight" -> [x |-> cur.x + step]
      [] key = "ArrowUp" -> [y |-> Max2(0, cur.y - step)]
      [] key = "ArrowDown" -> [y |-> cur.y + step]
      [] key = "[" -> [rotation |-> cur.rotation - 1]
      [] key = "]" -> [rotation |-> cur.rotation + 1]

EditKeys == {"ArrowLeft", "ArrowRight", "ArrowUp", "ArrowDown", "[", "]"}

RemoveKeys == {"Backspace", "Delete"}

onKey(key, shift) ==
    /\ activeCropId # 0
    /\ HasBox(BoxesAt(activeIdx), activeCropId)
    /\ LET boxes == BoxesAt(activeIdx)
           cur == FindBox(boxes, activeCropId)
           step == IF shift THEN Px(10) ELSE Px(1)
       IN  IF key \in EditKeys
           THEN /\ budget.edits < MaxEdits
                /\ budget' = [budget EXCEPT !.edits = @ + 1]
                /\ boxesMap' = WithBoxes(activeIdx,
                                  Updated(boxes, activeCropId, KeyChange(key, step, cur)))
           ELSE /\ key \in RemoveKeys
                /\ budget.lists < MaxListOps
                /\ budget' = [budget EXCEPT !.lists = @ + 1]
                /\ boxesMap' = IF Len(boxes) > 1
                               THEN WithBoxes(activeIdx, Removed(boxes, activeCropId))
                               ELSE boxesMap
    /\ UNCHANGED <<files, activeIdx, activeCropId, mode, viewMode, viewVars, pending>>
    /\ Logged(IF key \in EditKeys THEN "key" ELSE "remove", activeIdx)

(***************************************************************************)
(* Client: ViewTransform and InteractionController                         *)
(***************************************************************************)
\* drawCanvas: base = min(maxW / img.width, maxH / img.height, 1) with maxW 900
\* and maxH 640, as the fraction num / den.
BaseScale(img) ==
    IF img.w <= 900 /\ img.h <= 640 THEN [num |-> 1, den |-> 1]
    ELSE IF 900 * img.h <= 640 * img.w THEN [num |-> 900, den |-> img.w]
    ELSE [num |-> 640, den |-> img.h]

\* The zoom and pan a canvas is drawn with: those of the view for the focused
\* image, 1 and (0, 0) for the others.
UseZoom4(index) == IF index = activeIdx THEN zoom4 ELSE 4

UsePan(index) == IF index = activeIdx THEN panOffset ELSE [x |-> 0, y |-> 0]

\* (s - pan) / scale for a screen coordinate s, scale = base * zoom, in units
\* of 1/Sub pixel; numerator and denominator.
ToImageNum(s, pan, index) == (s - pan) * Sub * 4 * BaseScale(files[index + 1]).den

ToImageDen(index) == UseZoom4(index) * BaseScale(files[index + 1]).num

ToImage(s, pan, index) == ToImageNum(s, pan, index) \div ToImageDen(index)

\* The pointer positions of the model: inside the canvas of image index
\* (cw = min(maxW, img.width * scale + |pan.x|), ch alike) and with an image
\* position that is a whole number of units.
OnCanvas(sx, sy, index) ==
    LET img == files[index + 1]
        b == BaseScale(img)
        pan == UsePan(index)
    IN  /\ sx >= 0 /\ sx <= 900
        /\ sy >= 0 /\ sy <= 640
        /\ sx * 4 * b.den <= img.w * UseZoom4(index) * b.num + Abs(pan.x) * 4 * b.den
        /\ sy * 4 * b.den <= img.h * UseZoom4(index) * b.num + Abs(pan.y) * 4 * b.den
        /\ ToImageNum(sx, pan.x, index) % ToImageDen(index) = 0
        /\ ToImageNum(sy, pan.y, index) % ToImageDen(index) = 0

ScreenXs == {100, 405, 475}

ScreenYs == {100, 160, 200}

\* getResizeHandle(x, y, box): corners claim 15, edges a band of 8; "" for null.
getResizeHandle(x, y, box) ==
    LET s == Px(15)
        e == Px(8)
        r == box.x + box.width
        b == box.y + box.height
    IN  IF x >= r - s /\ y >= b - s THEN "se"
        ELSE IF x >= r - s /\ y <= box.y + s THEN "ne"
        ELSE IF x <= box.x + s /\ y >= b - s THEN "sw"
        ELSE IF x <= box.x + s /\ y <= box.y + s THEN "nw"
        ELSE IF x >= r - e /\ x <= r + e THEN "e"
        ELSE IF x >= box.x - e /\ x <= box.x + e THEN "w"
        ELSE IF y >= b - e /\ y <= b + e THEN "s"
        ELSE IF y >= box.y - e /\ y <= box.y + e THEN "n"
        ELSE ""

\* The box outline grown by 15 on every side.
NearBox(ox, oy, box) ==
    /\ ox >= box.x - Px(15) /\ ox <= box.x + box.width + Px(15)
    /\ oy >= box.y - Px(15) /\ oy <= box.y + box.height + Px(15)

InBody(ox, oy, box) ==
    /\ ox >= box.x /\ ox <= box.x + box.width
    /\ oy >= box.y /\ oy <= box.y + box.height

\* A hit test in one pass: a box takes the point with its handles only when
\* no earlier box holds the point in its body.
HandleHitsOnePass(ox, oy, boxes) ==
    { k \in 1..Len(boxes) :
        /\ NearBox(ox, oy, boxes[k]) /\ getResizeHandle(ox, oy, boxes[k]) # ""
        /\ \A j \in 1..(k - 1) : ~InBody(ox, oy, boxes[j]) }

\* handleMouseDown's first loop: the first box with a handle under the point.
HandleHits(ox, oy, boxes) ==
    { k \in 1..Len(boxes) : NearBox(ox, oy, boxes[k]) /\ getResizeHandle(ox, oy, boxes[k]) # "" }

\* Its second loop: the first box with the point in its body.
BodyHits(ox, oy, boxes) == { k \in 1..Len(boxes) : InBody(ox, oy, boxes[k]) }

First(hits) == CHOOSE k \in hits : \A j \in hits : k <= j

handleMouseDown(index, sx, sy, shiftKey) ==
    /\ pointerOver = index
    /\ OnCanvas(sx, sy, index)
    /\ budget.gestures < MaxGestures
    /\ budget' = [budget EXCEPT !.gestures = @ + 1]
    /\ activeIdx' = index
    /\ LET pan == UsePan(index)
           ox == ToImage(sx, pan.x, index)
           oy == ToImage(sy, pan.y, index)
           boxes == BoxesAt(index)
           hh == HandleHits(ox, oy, boxes)
           bh == BodyHits(ox, oy, boxes)
       IN  IF hh # {}
           THEN /\ gesture' = [gesture EXCEPT
                                 !.isResizing = TRUE,
                                 !.resizeHandle = getResizeHandle(ox, oy, boxes[First(hh)]),
                                 !.dragStart = [x |-> ox, y |-> oy],
                                 !.resizeStartBox = boxes[First(hh)]]
                /\ activeCropId' = boxes[First(hh)].id
           ELSE IF bh # {}
           THEN /\ gesture' = [gesture EXCEPT
                                 !.isDragging = TRUE,
                                 !.dragStart = [x |-> ox - boxes[First(bh)].x,
                                                y |-> oy - boxes[First(bh)].y]]
                /\ activeCropId' = boxes[First(bh)].id
           ELSE IF shiftKey \/ (index = activeIdx /\ zoom4 > 4)
           THEN /\ gesture' = [gesture EXCEPT
                                 !.isPanning = TRUE,
                                 !.panStart = [x |-> sx - panOffset.x, y |-> sy - panOffset.y]]
                /\ UNCHANGED activeCropId
           ELSE UNCHANGED <<gesture, activeCropId>>
    /\ UNCHANGED <<files, boxesMap, mode, viewMode, zoom4, panOffset, pointerOver, pending>>
    /\ NotLogged

Clamp(lo, hi, v) == Max2(lo, Min2(hi, v))

\* The rectangle a pointer move gives a box during a resize; o is the box at
\* pointer-down, (dx, dy) the pointer's way since then, W x H the image.
Resized(box, o, handle, dx, dy, W, H) ==
    LET east == handle \in {"se", "ne", "e"}
        west == handle \in {"sw", "nw", "w"}
        south == handle \in {"se", "sw", "s"}
        north == handle \in {"ne", "nw", "n"}
        nw == IF east THEN Max2(Px(50), o.width + dx)
              ELSE IF west THEN Max2(Px(50), o.width - dx) ELSE box.width
        nh == IF south THEN Max2(Px(20), o.height + dy)
              ELSE IF north THEN Max2(Px(20), o.height - dy) ELSE box.height
        nx == IF west THEN o.x + dx ELSE box.x
        ny == IF north THEN o.y + dy ELSE box.y
    IN  [box EXCEPT !.x = Clamp(0, W - nw, nx), !.y = Clamp(0, H - nh, ny),
                    !.width = nw, !.height = nh]

\* A drag that rounds the origin and does not clamp it.
DraggedUnclamped(box, ox, oy, grab, W, H) ==
    [box EXCEPT !.x = RoundPx(ox - grab.x), !.y = RoundPx(oy - grab.y)]

\* The origin a pointer move gives a dragged box: snapped, then clamped.
Dragged(box, ox, oy, grab, W, H) ==
    [box EXCEPT !.x = Clamp(0, W - box.width, RoundPx(ox - grab.x)),
                !.y = Clamp(0, H - box.height, RoundPx(oy - grab.y))]

InGesture == gesture.isPanning \/ gesture.isResizing \/ gesture.isDragging

\* The cursor handleMouseMove sets outside a gesture: 'grab' or 'default' to
\* begin with; the loop stops at the first box whose outline grown by 15 holds
\* the point, with 'nwse-resize' for a handle, 'move' for the body, and the
\* cursor it began with for neither.
Cursor(index, ox, oy, boxes, shiftKey) ==
    LET near == { k \in 1..Len(boxes) : NearBox(ox, oy, boxes[k]) }
        start == IF index = activeIdx /\ (zoom4 > 4 \/ shiftKey) THEN "grab" ELSE "default"
    IN  IF near = {} THEN start
        ELSE IF getResizeHandle(ox, oy, boxes[First(near)]) # "" THEN "nwse-resize"
        ELSE IF InBody(ox, oy, boxes[First(near)]) THEN "move"
        ELSE start

handleMouseMove(index, sx, sy, shiftKey) ==
    /\ pointerOver = index
    /\ OnCanvas(sx, sy, index)
    /\ InGesture => budget.moves < MaxMoves
    /\ budget' = IF InGesture THEN [budget EXCEPT !.moves = @ + 1] ELSE budget
    /\ LET pan == UsePan(index)
           ox == ToImage(sx, pan.x, index)
           oy == ToImage(sy, pan.y, index)
           W == Px(files[index + 1].w)
           H == Px(files[index + 1].h)
           boxes == BoxesAt(index)
       IN  IF gesture.isPanning /\ index = activeIdx
           THEN /\ panOffset' = [x |-> sx - gesture.panStart.x, y |-> sy - gesture.panStart.y]
                /\ UNCHANGED boxesMap
           ELSE IF gesture.isResizing /\ activeCropId # 0 /\ gesture.resizeHandle # ""
           THEN /\ boxesMap' =
                     IF gesture.resizeStartBox = NoBox THEN boxesMap
                     ELSE WithBoxes(index,
                            [k \in 1..Len(boxes) |->
                               IF boxes[k].id # activeCropId THEN boxes[k]
                               ELSE Resized(boxes[k], gesture.resizeStartBox,
                                            gesture.resizeHandle,
                                            ox - gesture.dragStart.x,
                                            oy - gesture.dragStart.y, W, H)])
                /\ UNCHANGED panOffset
           ELSE IF gesture.isDragging /\ activeCropId # 0
           THEN /\ boxesMap' = WithBoxes(index,
                            [k \in 1..Len(boxes) |->
                               IF boxes[k].id # activeCropId THEN boxes[k]
                               ELSE Dragged(boxes[k], ox, oy, gesture.dragStart, W, H)])
                /\ UNCHANGED panOffset
           ELSE UNCHANGED <<boxesMap, panOffset>>
    /\ UNCHANGED <<files, activeIdx, activeCropId, mode, viewMode, zoom4, gesture,
                   pointerOver, pending>>
    /\ lastOp' =
          IF gesture.isPanning /\ index = activeIdx THEN NoOp
          ELSE IF gesture.isResizing /\ activeCropId # 0 /\ gesture.resizeHandle # ""
          THEN [name |-> "resize", index |-> index, before |-> BoxesAt(index)]
          ELSE IF gesture.isDragging /\ activeCropId # 0
          THEN [name |-> "drag", index |-> index, before |-> BoxesAt(index)]
          ELSE NoOp
    /\ cursor' =
          IF \/ gesture.isPanning /\ index = activeIdx
             \/ gesture.isResizing /\ activeCropId # 0 /\ gesture.resizeHandle # ""
             \/ gesture.isDragging /\ activeCropId # 0
          THEN cursor
          ELSE [cursor EXCEPT ![index] =
                  Cursor(index, ToImage(sx, UsePan(index).x, index),
                         ToImage(sy, UsePan(index).y, index), BoxesAt(index), shiftKey)]
    /\ UNCHANGED <<detVars, cropVars, save>>

\* handleMouseUp, bound to mouseup and to mouseleave.
handleMouseUp ==
    /\ pointerOver # -1
    /\ gesture' = NoGesture
    /\ UNCHANGED <<files, boxesMap, activeIdx, activeCropId, mode, viewMode, zoom4,
                   panOffset, pointerOver, pending, budget>>
    /\ NotLogged

MouseLeave ==
    /\ pointerOver # -1
    /\ gesture' = NoGesture
    /\ pointerOver' = -1
    /\ UNCHANGED <<files, boxesMap, activeIdx, activeCropId, mode, viewMode, zoom4,
                   panOffset, pending, budget>>
    /\ NotLogged

\* The pointer comes onto the canvas of a rendered image.
MouseEnter(index) ==
    /\ pointerOver = -1
    /\ index \in Rendered
    /\ pointerOver' = index
    /\ UNCHANGED <<files, boxesMap, activeIdx, activeCropId, mode, viewMode, zoom4,
                   panOffset, gesture, pending, budget>>
    /\ NotLogged

\* handleZoomIn / handleZoomOut / handleResetView: steps of 0.25 within [0.5, 3].
handleZoomIn ==
    /\ OffCanvas
    /\ Len(files) > 0
    /\ zoom4 < 12
    /\ zoom4 + 1 <= 4 + ZoomSpan
    /\ zoom4' = Min2(12, zoom4 + 1)
    /\ UNCHANGED <<files, boxesMap, activeIdx, activeCropId, mode, viewMode, panOffset,
                   gesture, pointerOver, pending, budget>>
    /\ NotLogged

handleZoomOut ==
    /\ OffCanvas
    /\ Len(files) > 0
    /\ zoom4 > 2
    /\ zoom4 - 1 >= 4 - ZoomSpan
    /\ zoom4' = Max2(2, zoom4 - 1)
    /\ UNCHANGED <<files, boxesMap, activeIdx, activeCropId, mode, viewMode, panOffset,
                   gesture, pointerOver, pending, budget>>
    /\ NotLogged

handleResetView ==
    /\ OffCanvas
    /\ zoom4' = 4
    /\ panOffset' = [x |-> 0, y |-> 0]
    /\ UNCHANGED <<files, boxesMap, activeIdx, activeCropId, mode, viewMode,
                   gesture, pointerOver, pending, budget>>
    /\ NotLogged

(***************************************************************************)
(* Save All Crops (App.tsx, handleSaveAllCrops)                            *)
(***************************************************************************)
MaxSaves == 2

\* buildCropPayloadForIndex(i).length for each file: the boxes of image i
\* whose label is not empty.
Payload ==
    [k \in 1..Len(files) |->
        Cardinality({ j \in 1..Len(BoxesAt(k - 1)) : BoxesAt(k - 1)[j].itemNumber # "" })]

\* hasAny: some list of the store, under any key, holds a labelled box.
HasAny ==
    \E k \in DOMAIN boxesMap : \E j \in 1..Len(boxesMap[k]) : boxesMap[k][j].itemNumber # ""

\* The first index from i on whose payload is not empty, -1 for none.
RECURSIVE NextToSend(_, _)
NextToSend(payload, i) ==
    IF i >= Len(payload) THEN -1
    ELSE IF payload[i + 1] > 0 THEN i
    ELSE NextToSend(payload, i + 1)

\* The for loop from index from on, up to its next await or past its end:
\* images without payload are skipped; a request is sent for the first one
\* with payload; after the last image the result is stored and reported.
SaveLoop(s, from) ==
    LET j == NextToSend(s.payload, from)
    IN  IF j = -1
        THEN [s EXCEPT !.isProcessing = FALSE,
                       !.currentStep = StepText("saved", s.all),
                       !.pc = "idle", !.calls = @ - 1, !.result = "saved"]
        ELSE [s EXCEPT !.pc = "await", !.i = j,
                       !.inflight = @ \cup {j},
                       !.sent = Append(@, j),
                       !.submitted = @ + s.payload[j + 1]]

\* A failed request that is passed over: the loop goes on with the next image.
SaveOnErrorGoesOn(s) ==
    SaveLoop([s EXCEPT !.inflight = @ \ {s.i}, !.failedAt = s.i], s.i + 1)

\* throw (resp not ok) or a rejected fetch / json: catch, then finally.
SaveOnError(s) ==
    [s EXCEPT !.isProcessing = FALSE,
              !.currentStep = StepText("failed", 0),
              !.pc = "idle", !.calls = @ - 1, !.result = "failed",
              !.inflight = @ \ {s.i}, !.failedAt = s.i]

\* The button enabled whatever isProcessing is.
SaveEnabledWhileProcessing(vendor) == vendor /\ HasAny

\* The Save All Crops button is enabled: a vendor is chosen, no save is
\* processing and some box is labelled.
SaveEnabled(vendor) == vendor /\ ~save.isProcessing /\ HasAny

\* A click on Save All Crops: the handler up to its first await.
handleSaveAllCrops(vendor) ==
    /\ OffCanvas
    /\ SaveEnabled(vendor)
    /\ Len(files) > 0
    /\ save.runs < MaxSaves
    /\ save' = SaveLoop([save EXCEPT !.isProcessing = TRUE,
                                     !.currentStep = StepText("uploading", Len(files)),
                                     !.payload = Payload, !.all = 0,
                                     !.sent = <<>>, !.submitted = 0,
                                     !.calls = @ + 1, !.runs = @ + 1,
                                     !.result = "none", !.failedAt = -1], 0)
    /\ lastOp' = NoOp
    /\ UNCHANGED <<detVars, cropVars, files, boxesMap, activeIdx, activeCropId, mode,
                   viewMode, viewVars, pending, budget, cursor>>

\* What the awaited request ends with: a 2xx answer with got croppedMouldings,
\* a status that is not ok, or a rejected fetch.
SaveOutcomes(n) ==
    { [kind |-> "ok", got |-> g] : g \in 0..n }
        \cup { [kind |-> "status", got |-> 0], [kind |-> "transport", got |-> 0] }

\* The awaited request ends; the handler runs on to its next await or returns.
SaveResponse(outcome) ==
    /\ save.pc = "await"
    /\ outcome \in SaveOutcomes(save.payload[save.i + 1])
    /\ save' = IF outcome.kind = "ok"
               THEN SaveLoop([save EXCEPT !.all = @ + outcome.got,
                                          !.currentStep = StepText("sofar", save.all + outcome.got),
                                          !.inflight = @ \ {save.i}],
                             save.i + 1)
               ELSE SaveOnError(save)
    /\ lastOp' = NoOp
    /\ UNCHANGED <<detVars, cropVars, files, boxesMap, activeIdx, activeCropId, mode,
                   viewMode, viewVars, pending, budget, cursor>>

(***************************************************************************)
(* Specifications                                                          *)
(***************************************************************************)
Init == DetectInit /\ CropInit /\ UIInit

Uploads == { s \in SeqsUpTo(Images, MaxFiles) : Len(s) > 0 }

DetectionOutcomes ==
    { [threw |-> FALSE, itemNumbers |-> l] : l \in ItemLists }
        \cup { [threw |-> TRUE, itemNumbers |-> <<>>] }

MaxSeeded == 3

\* Answers with up to MaxSeeded item numbers, one with an empty first entry.
SeedLists ==
    { SubSeq(<<"101", "102", "103", "104">>, 1, n) : n \in 0..MaxSeeded }
        \cup { <<"", "102">> }

SeedOutcomes ==
    { [threw |-> FALSE, itemNumbers |-> l] : l \in SeedLists }
        \cup { [threw |-> TRUE, itemNumbers |-> <<>>] }

MaxBatches == 2

\* Up to MaxBatches uploads in either mode, the seeding of their sessions, and
\* Clear All.
SeedNext ==
    \/ \E m \in {"catalog", "screenshot"} : SetMode(m)
    \/ \E list \in Uploads : handleMultiUploadWithin(list, MaxBatches)
    \/ \E task \in pending, outcome \in SeedOutcomes : DetectionSettled(task, outcome)
    \/ ClearAll

SpecSeed == Init /\ [][SeedNext]_vars

\* A seeded batch in either mode, label edits, and the saves of it.
SaveNext ==
    \/ \E m \in {"catalog", "screenshot"} : SetMode(m)
    \/ \E list \in Uploads : handleMultiUpload(list)
    \/ \E task \in pending, outcome \in DetectionOutcomes : DetectionSettled(task, outcome)
    \/ \E i \in 0..(MaxFiles - 1), id \in 1..MaxBoxes, text \in LabelInputs :
          RowControl(i, id, "label", text)
    \/ \E vendor \in BOOLEAN : handleSaveAllCrops(vendor)
    \/ \E outcome \in SaveOutcomes(MaxBoxes) : SaveResponse(outcome)

SpecSave == Init /\ [][SaveNext]_vars

\* Pointer-downs over one image whose seeded box is overlapped by an added one:
\* points on a handle of the later box inside the body of the earlier, in a
\* corner where an edge band passes, in both bodies, and on no box.
HitXs == {20, 85, 300, 465}

HitYs == {20, 100, 165}

HitNext ==
    \/ \E list \in Uploads : Len(list) = 1 /\ handleMultiUpload(list)
    \/ \E task \in pending, outcome \in DetectionOutcomes : DetectionSettled(task, outcome)
    \/ addCropBox(0)
    \/ \E i \in 0..(MaxFiles - 1) : MouseEnter(i)
    \/ \E i \in 0..(MaxFiles - 1), sx \in HitXs, sy \in HitYs, shift \in BOOLEAN :
          handleMouseDown(i, sx, sy, shift)
    \/ handleMouseUp
    \/ MouseLeave
    \/ handleZoomIn

SpecHit == Init /\ [][HitNext]_vars

\* Drags of a box seeded on an image of 1000 x 1000, which is drawn at the
\* scale 0.64: the screen positions are multiples of 8, image positions of
\* 12.5, so that pointer and grab offset fall on half pixels; presses in the
\* body of the box, moves to both borders of the canvas and in between.
DragImage == [w |-> 1000, h |-> 1000]

DragXs == {8, 200, 208, 632, 640}

DragYs == {64, 72}

DragNext ==
    \/ handleMultiUpload(<<DragImage>>)
    \/ \E task \in pending, outcome \in DetectionOutcomes : DetectionSettled(task, outcome)
    \/ \E i \in 0..(MaxFiles - 1) : MouseEnter(i)
    \/ \E i \in 0..(MaxFiles - 1), sx \in DragXs, sy \in DragYs, shift \in BOOLEAN :
          handleMouseDown(i, sx, sy, shift)
    \/ /\ InGesture
       /\ \E i \in 0..(MaxFiles - 1), sx \in DragXs, sy \in DragYs :
             handleMouseMove(i, sx, sy, FALSE)
    \/ handleMouseUp
    \/ MouseLeave

SpecDrag == Init /\ [][DragNext]_vars

\* Keys pressed on a seeded image, with an added box and with the pointer
\* gestures along one screen line that select a box and drag it to the left
\* border.
KeysNext ==
    \/ \E list \in Uploads : Len(list) = 1 /\ handleMultiUpload(list)
    \/ \E task \in pending, outcome \in DetectionOutcomes : DetectionSettled(task, outcome)
    \/ addCropBox(0)
    \/ \E i \in 0..(MaxFiles - 1) : MouseEnter(i)
    \/ \E i \in 0..(MaxFiles - 1), sx \in ScreenXs : handleMouseDown(i, sx, 100, FALSE)
    \/ /\ InGesture
       /\ \E i \in 0..(MaxFiles - 1), sx \in ScreenXs : handleMouseMove(i, sx, 100, FALSE)
    \/ handleMouseUp
    \/ MouseLeave
    \/ \E key \in EditKeys \cup RemoveKeys, shift \in BOOLEAN : onKey(key, shift)

SpecKeys == Init /\ [][KeysNext]_vars

\* Pointer moves outside a gesture over one image whose seeded box is
\* overlapped by an added one: points on no box, in the body and on a corner
\* of the first box, and 10 below the first box inside the body of the second.
CursorXs == {20, 300, 465}

CursorYs == {20, 100, 165, 180}

CursorNext ==
    \/ \E list \in Uploads : Len(list) = 1 /\ handleMultiUpload(list)
    \/ \E task \in pending, outcome \in DetectionOutcomes : DetectionSettled(task, outcome)
    \/ addCropBox(0)
    \/ \E i \in 0..(MaxFiles - 1) : MouseEnter(i)
    \/ \E i \in 0..(MaxFiles - 1), sx \in CursorXs, sy \in CursorYs, shift \in BOOLEAN :
          handleMouseMove(i, sx, sy, shift)
    \/ MouseLeave
    \/ handleZoomIn

SpecCursor == Init /\ [][CursorNext]_vars

\* The crops whose rectangle is computed: bitmaps of even and of odd size;
\* boxes in units of 1 / Sub pixel, whole and fractional, inside the bitmap,
\* across its border, left of it and larger than it.
ExtractImages == { [w |-> 40, h |-> 30], [w |-> 41, h |-> 31] }

ExtractCrops ==
    { [x |-> x, y |-> y, width |-> w, height |-> h] :
        x \in {-3, 0, 5, 20, 70}, y \in {0, 9, 18, 62},
        w \in {0, 3, 10, 21, 60, 100}, h \in {2, 11, 40, 70} }

ExtractInit ==
    /\ DetectInit
    /\ CropIdle
    /\ UIInit
    /\ extract \in { [img |-> img, crop |-> c, theta |-> t, done |-> FALSE, rect |-> NoRect] :
                        img \in ExtractImages, c \in ExtractCrops, t \in Thetas }

ExtractNext ==
    \/ CropGeometry

SpecExtract == ExtractInit /\ [][ExtractNext]_vars

\* Gestures on one image whose seeded box is followed by an added one that
\* reaches over the right border: presses in the body of the first box, on
\* its 'se' corner and on the 's' edge of the added box, with the moves of the
\* gestures.
FrameXs == {300, 465}

FrameYs == {100, 160, 200}

FrameNext ==
    \/ \E list \in Uploads : Len(list) = 1 /\ handleMultiUpload(list)
    \/ \E task \in pending, outcome \in DetectionOutcomes : DetectionSettled(task, outcome)
    \/ addCropBox(0)
    \/ \E i \in 0..(MaxFiles - 1) : MouseEnter(i)
    \/ \E i \in 0..(MaxFiles - 1), sx \in FrameXs, sy \in FrameYs, shift \in BOOLEAN :
          handleMouseDown(i, sx, sy, shift)
    \/ /\ InGesture
       /\ \E i \in 0..(MaxFiles - 1), sx \in FrameXs, sy \in FrameYs :
             handleMouseMove(i, sx, sy, FALSE)
    \/ handleMouseUp
    \/ MouseLeave

SpecFrame == Init /\ [][FrameNext]_vars

\* The client's box store.
Next ==
    \/ \E m \in {"catalog", "screenshot"} : SetMode(m)
    \/ \E v \in {"single", "all"} : SetViewMode(v)
    \/ \E list \in Uploads : handleMultiUpload(list)
    \/ \E task \in pending, outcome \in DetectionOutcomes : DetectionSettled(task, outcome)
    \/ \E i \in 0..(MaxFiles - 1) : addCropBox(i)
    \/ \E i \in 0..(MaxFiles - 1), id \in 1..MaxBoxes : RemoveButton(i, id)
    \/ \E i \in 0..(MaxFiles - 1), id \in 1..MaxBoxes, kind \in RowKinds, text \in LabelInputs :
          RowControl(i, id, kind, IF kind = "label" THEN text ELSE "")
    \/ \E i \in 0..(MaxFiles - 1), id \in 1..MaxBoxes : RowClick(i, id)
    \/ \E i \in 0..(MaxFiles - 1) : setActiveByThumb(i)
    \/ \E i \in 0..(MaxFiles - 1) : FocusButton(i)
    \/ \E key \in EditKeys \cup RemoveKeys, shift \in BOOLEAN : onKey(key, shift)
    \/ ClearAll

Spec == Init /\ [][Next]_vars

\* The pointer gestures on the canvases of a seeded batch; of the pointer
\* moves, those made during a gesture, with the shift key up.
PointerNext ==
    \/ \E list \in Uploads : Len(list) = 1 /\ handleMultiUpload(list)
    \/ \E task \in pending, outcome \in DetectionOutcomes : DetectionSettled(task, outcome)
    \/ \E i \in 0..(MaxFiles - 1) : MouseEnter(i)
    \/ \E i \in 0..(MaxFiles - 1), sx \in ScreenXs, sy \in ScreenYs, shift \in BOOLEAN :
          handleMouseDown(i, sx, sy, shift)
    \/ /\ InGesture
       /\ \E i \in 0..(MaxFiles - 1), sx \in ScreenXs, sy \in ScreenYs :
             handleMouseMove(i, sx, sy, FALSE)
    \/ handleMouseUp
    \/ MouseLeave
    \/ handleZoomIn
    \/ handleZoomOut
    \/ handleResetView

SpecPointer == Init /\ [][PointerNext]_vars

\* The ways to change the focused image of a full batch, with the zoom buttons
\* and panning (of pointer moves, those of a pan gesture) along one screen line.
ViewNext ==
    \/ \E v \in {"single", "all"} : SetViewMode(v)
    \/ \E list \in Uploads : Len(list) = MaxFiles /\ handleMultiUpload(list)
    \/ \E task \in pending : DetectionSettled(task, [threw |-> FALSE, itemNumbers |-> <<>>])
    \/ \E i \in 0..(MaxFiles - 1), id \in 1..MaxBoxes : RowClick(i, id)
    \/ \E i \in 0..(MaxFiles - 1) : setActiveByThumb(i)
    \/ \E i \in 0..(MaxFiles - 1) : FocusButton(i)
    \/ \E i \in 0..(MaxFiles - 1) : MouseEnter(i)
    \/ \E i \in 0..(MaxFiles - 1), sx \in ScreenXs, shift \in BOOLEAN :
          handleMouseDown(i, sx, 100, shift)
    \/ /\ gesture.isPanning
       /\ \E i \in 0..(MaxFiles - 1), sx \in ScreenXs : handleMouseMove(i, sx, 100, FALSE)
    \/ handleMouseUp
    \/ MouseLeave
    \/ handleZoomIn
    \/ handleZoomOut
    \/ handleResetView

SpecView == Init /\ [][ViewNext]_vars

DetectNext ==
    \/ /\ dresp = NoResp
       /\ \E req \in DetectRequests \cup {NoFile} : DetectItemNumbers(req)
    \/ DetectDone

SpecDetect == Init /\ [][DetectNext]_vars

\* Words near the left edge of a 1500 px wide image whose tops and centers are
\* ordered differently: the first is 60 x 30 with center 115, the second
\* starts lower and is 60 px tall (center 150), the third starts lower still
\* and is 20 px tall (center 135), the fourth is far below, the fifth lies
\* beside the third with less confidence.
RowWordPool ==
    { [text |-> Txt("4", "0", "1"), x0 |-> 50, y0 |-> 100, x1 |-> 110, y1 |-> 130, conf |-> 80],
      [text |-> Txt("4", "0", "2"), x0 |-> 50, y0 |-> 120, x1 |-> 110, y1 |-> 180, conf |-> 70],
      [text |-> Txt("4", "0", "3"), x0 |-> 50, y0 |-> 125, x1 |-> 110, y1 |-> 145, conf |-> 90],
      [text |-> Txt("4", "0", "4"), x0 |-> 50, y0 |-> 300, x1 |-> 110, y1 |-> 330, conf |-> 85],
      [text |-> Txt("4", "0", "5"), x0 |-> 55, y0 |-> 125, x1 |-> 115, y1 |-> 145, conf |-> 60] }

\* Requests that take the default strategy with those words.
RowRequests ==
    [hasFile : {TRUE}, q : {""}, b : {""}, h : {""},
     imgW : {1500}, imgH : ImageHeights,
     words : WordLists(RowWordPool, MaxWords),
     roiWords : {<<>>},
     fault : {"none"}]

RowNext ==
    \/ /\ dresp = NoResp
       /\ \E req \in RowRequests : DetectItemNumbers(req)
    \/ DetectDone

SpecRows == Init /\ [][RowNext]_vars

\* The route under requests that reach detectNurreBig with up to
\* MaxNurreWords words in the region.
NurreNext ==
    \/ /\ dresp = NoResp
       /\ \E req \in NurreRequests : DetectItemNumbers(req)
    \/ DetectDone

SpecNurre == Init /\ [][NurreNext]_vars

CropNext ==
    \/ \E s \in Slots, req \in CropRequests : CropReceive(s, req)
    \/ \E s \in Slots, ok \in BOOLEAN : CropMetadata(s, ok)
    \/ \E s \in Slots, outcome \in {"ok", "extractFails", "writeFails"} : CropExtracted(s, outcome)
    \/ \E s \in Slots : CropClose(s)
    \/ Tick

SpecCrop == Init /\ [][CropNext]_vars

(***************************************************************************)
(* Properties                                                              *)
(***************************************************************************)
\* The bounds of a box on an image: minimum size, and inside the image.
BoxInBounds(box, img) ==
    /\ box.width >= Px(50)
    /\ box.height >= Px(20)
    /\ 0 <= box.x
    /\ box.x + box.width <= Px(img.w)
    /\ 0 <= box.y
    /\ box.y + box.height <= Px(img.h)

AllInBounds(list, img) == \A k \in 1..Len(list) : BoxInBounds(list[k], img)

\* C1: in every reachable state of a session, every box has width >= 50 and
\* height >= 20 and lies inside its image. The code does not keep this: the
\* nudges to the right and downwards and the added box are not clamped.
C1_BoxesInBounds ==
    \A i \in DOMAIN boxesMap :
        i < Len(files) => AllInBounds(boxesMap[i], files[i + 1])

\* C2: a pointer drag or resize of a list whose boxes are all inside the image
\* with the minimum size leaves them so. The code does not keep this: a resize
\* clamps the origin to [0, W - width] without capping the width at W.
C2_PointerKeepsBounds ==
    (/\ lastOp.name \in {"drag", "resize"}
     /\ lastOp.index < Len(files)
     /\ AllInBounds(lastOp.before, files[lastOp.index + 1]))
        => AllInBounds(BoxesAt(lastOp.index), files[lastOp.index + 1])

\* C3: the last box of a session is never removed. A list of the store is
\* empty only while its seeding is still in flight, and a removal asked of a
\* list of one box leaves that list as it was.
C3_LastBoxKept ==
    /\ \A i \in DOMAIN boxesMap :
          boxesMap[i] = <<>> => \E t \in pending : t.idx = i
    /\ (lastOp.name = "remove" /\ Len(lastOp.before) <= 1)
          => BoxesAt(lastOp.index) = lastOp.before

\* A removal was asked of a session's only box, and the box is still there.
C3_Witness ==
    /\ lastOp.name = "remove"
    /\ Len(lastOp.before) = 1
    /\ BoxesAt(lastOp.index) = lastOp.before

\* The labels of the boxes of a request that were extracted, in input order.
RECURSIVE Successes(_, _)
Successes(crops, outcomes) ==
    IF crops = <<>> \/ outcomes = <<>> THEN <<>>
    ELSE IF Head(outcomes)
         THEN <<Head(crops)>> \o Successes(Tail(crops), Tail(outcomes))
         ELSE Successes(Tail(crops), Tail(outcomes))

\* C4: a request whose boxes were reached ends with status 200 after every box
\* was tried, and its croppedMouldings are the extracted boxes in input order,
\* one entry for each and none for a failed box.
C4_FailureIsolated ==
    \A s \in Slots :
        (creq[s].pc = "done" /\ creq[s].outcomes # <<>>) =>
            /\ creq[s].resp.status = 200
            /\ Len(creq[s].outcomes) = Len(creq[s].req.crops)
            /\ [k \in 1..Len(creq[s].resp.croppedMouldings) |->
                   creq[s].resp.croppedMouldings[k].detectedNumber]
                 = Successes(creq[s].req.crops, creq[s].outcomes)

\* A request answered after its first box failed and its second was extracted.
C4_Witness ==
    \E s \in Slots :
        /\ creq[s].pc = "done"
        /\ creq[s].outcomes = <<FALSE, TRUE>>
        /\ Len(creq[s].resp.croppedMouldings) = 1

\* The name the rule gives a label in a directory: NAME.png when that is free,
\* else NAME_k.png for the least k >= 1 that is free.
RuleName(label, now, dir) ==
    LET name == Clean(label, now)
    IN  IF name \o ".png" \notin dir THEN name \o ".png"
        ELSE FileBase(name,
                 CHOOSE k \in 1..(Cardinality(dir) + 1) :
                     /\ FileBase(name, k) \notin dir
                     /\ \A j \in 1..(k - 1) : FileBase(name, j) \in dir)

\* C5: every file written is named by the rule; "ab-12!" gives AB12.png, and
\* AB12_1.png when AB12.png exists; a label with no letter or digit gets the
\* name CROP<time>; the name written is never one the directory already held.
C5_FileNaming ==
    wlog # NoWrite =>
        /\ wlog.name = RuleName(wlog.label, wlog.now, wlog.before)
        /\ wlog.name \notin wlog.before
        /\ wlog.label = <<"a", "b", "-", "1", "2", "!">> =>
              /\ wlog.before = {} => wlog.name = "AB12.png"
              /\ wlog.before \cap {"AB12.png", "AB12_1.png"} = {"AB12.png"}
                    => wlog.name = "AB12_1.png"
        /\ (wlog.label = <<"-", "-">> /\ wlog.before = {})
              => wlog.name = "CROP" \o ToString(wlog.now) \o ".png"

\* The second extraction of "ab-12!" has been written as AB12_1.png.
C5_Witness ==
    /\ wlog.label = <<"a", "b", "-", "1", "2", "!">>
    /\ wlog.before = {"AB12.png"}
    /\ wlog.name = "AB12_1.png"

\* The results of the requests in progress or just answered, as (slot, position).
LiveResults == { <<s, k>> : s \in Slots, k \in 1..MaxCrops } 

HasResult(r) == r[2] <= Len(creq[r[1]].results)

\* C6: whatever the interleaving of the requests, no two boxes are written
\* under one file name, and a write never goes to a name that exists.
C6_NamesNeverShared ==
    /\ \A r1, r2 \in LiveResults :
          (HasResult(r1) /\ HasResult(r2) /\ r1 # r2) =>
              creq[r1[1]].results[r1[2]].id # creq[r2[1]].results[r2[2]].id
    /\ \A r \in LiveResults : HasResult(r) => creq[r[1]].results[r[2]].id \in fs
    /\ wlog # NoWrite => wlog.name \notin wlog.before

\* Two requests, both with boxes still to extract, have each written a box
\* whose label normalises to the same name.
C6_Witness ==
    \E s, t \in Slots :
        /\ s # t
        /\ creq[s].pc = "extract"
        /\ creq[t].pc = "extract"
        /\ creq[s].results # <<>>
        /\ creq[t].results # <<>>
        /\ Stripped(creq[s].results[1].detectedNumber)
             = Stripped(creq[t].results[1].detectedNumber)

\* C7: a request without a bitmap or with a malformed box array is answered
\* with an error status at once: none of its boxes is tried or extracted.
C7_InvalidRejected ==
    \A s \in Slots :
        (creq[s].pc # "idle" /\ (~creq[s].req.hasFile \/ ~creq[s].req.wellFormed)) =>
            /\ creq[s].pc = "done"
            /\ creq[s].resp.status >= 400
            /\ creq[s].resp.croppedMouldings = <<>>
            /\ creq[s].outcomes = <<>>
            /\ creq[s].results = <<>>

\* A request with boxes and no bitmap and a request with a malformed box array
\* have both been answered with an error.
C7_Witness ==
    \E s, t \in Slots :
        /\ creq[s].pc = "done"
        /\ ~creq[s].req.hasFile /\ creq[s].req.wellFormed /\ creq[s].req.crops # <<>>
        /\ creq[s].resp.status = 400
        /\ creq[t].pc = "done"
        /\ ~creq[t].req.wellFormed
        /\ creq[t].resp.status = 500

\* The awaited call that req.fault names was reached.
FaultHit == \E k \in 1..Len(dtrace) : dtrace[k] = dreq.fault

\* C8: every response of the detection route has status 200; without a
\* bitmap, with a recognizer that finds nothing, or with a fault in the
\* preprocessing or in a strategy that ran, both lists are empty.
C8_DetectionNeverFails ==
    dresp # NoResp =>
        /\ dresp.status = 200
        /\ (\/ ~dreq.hasFile
            \/ dreq.fault = "preprocess"
            \/ FaultHit
            \/ (dreq.words = <<>> /\ dreq.roiWords = <<>>))
              => (dresp.detections = <<>> /\ dresp.itemNumbers = <<>>)

\* The fallback's recognizer threw after nurre found nothing.
C8_Witness ==
    /\ dresp # NoResp
    /\ dreq.fault = "presto"
    /\ dtrace = <<"nurre", "presto">>
    /\ dreq.words # <<>>
    /\ dresp.status = 200
    /\ dresp.itemNumbers = <<>>

\* C9: with nurre selected and no fault, an empty nurre output makes the route
\* run presto on the whole image and answer with presto's output; a non-empty
\* one is the answer, and presto is not run.
C9_Fallback ==
    (dresp # NoResp /\ dreq.hasFile /\ Strategy(dreq) = "nurre" /\ dreq.fault = "none") =>
        LET n == detectNurreBig(dreq.roiWords, dreq.imgW, dreq.imgH)
            p == detectPresto(dreq.words, dreq.imgW, dreq.imgH)
        IN  IF n.itemNumbers = <<>>
            THEN /\ dtrace = <<"nurre", "presto">>
                 /\ dresp.detections = p.detections
                 /\ dresp.itemNumbers = p.itemNumbers
            ELSE /\ dtrace = <<"nurre">>
                 /\ dresp.detections = n.detections
                 /\ dresp.itemNumbers = n.itemNumbers

\* nurre found nothing in a region that held words, and the answer carries
\* what presto found.
C9_Witness ==
    /\ dresp # NoResp
    /\ Strategy(dreq) = "nurre"
    /\ dreq.fault = "none"
    /\ dreq.roiWords # <<>>
    /\ dtrace = <<"nurre", "presto">>
    /\ dresp.itemNumbers # <<>>

\* Row deduplication as a rule: walking the candidates in order, one whose
\* center is within reach of the last kept one's is merged into it (the more
\* confident of the two stays, the kept one on a tie), any other is kept.
RECURSIVE RuleRows(_, _, _, _)
RuleRows(cands, kept, gap, strict) ==
    IF cands = <<>> THEN kept
    ELSE LET d == Head(cands)
             last == kept[Len(kept)]
             near == /\ kept # <<>>
                     /\ IF strict THEN Abs(d.cy2 - last.cy2) < 2 * gap
                        ELSE Abs(d.cy2 - last.cy2) <= 2 * gap
         IN  RuleRows(Tail(cands),
                      IF ~near THEN Append(kept, d)
                      ELSE IF d.conf > last.conf THEN [kept EXCEPT ![Len(kept)] = d]
                      ELSE kept,
                      gap, strict)

\* A presto request that was answered from its candidates.
PrestoAnswered ==
    /\ dresp # NoResp
    /\ dreq.hasFile
    /\ dreq.fault = "none"
    /\ Strategy(dreq) # "nurre"

\* C10 as stated: merging exactly when the centers differ by less than
\* max(round(0.015 H), 15).
C10_AsStated ==
    PrestoAnswered =>
        dresp.detections =
            Detections(RuleRows(PrestoCandidates(dreq.words, dreq.imgW, dreq.imgH), <<>>,
                                Max2(RoundMilli(15 * dreq.imgH), 15), TRUE))

\* C10: the candidates are merged exactly when their centers differ by at most
\* round(0.015 H) (15 when that is 0); the more confident of the two is kept.
\* On a 2000 px image, centers 10 apart give one output and 50 apart two.
C10_RowDedup ==
    PrestoAnswered =>
        LET c == PrestoCandidates(dreq.words, dreq.imgW, dreq.imgH)
            r == RoundMilli(15 * dreq.imgH)
        IN  /\ dresp.detections = Detections(RuleRows(c, <<>>, IF r = 0 THEN 15 ELSE r, FALSE))
            /\ (dreq.imgH = 2000 /\ Len(c) = 2 /\ Abs(c[1].cy2 - c[2].cy2) = 2 * 10) =>
                  /\ Len(dresp.detections) = 1
                  /\ dresp.detections[1].conf = Max2(c[1].conf, c[2].conf)
            /\ (dreq.imgH = 2000 /\ Len(c) = 2 /\ Abs(c[1].cy2 - c[2].cy2) = 2 * 50) =>
                  Len(dresp.detections) = 2

\* On a 2000 px image two candidates with centers exactly 30 apart were merged
\* into the more confident one.
C10_Witness ==
    /\ PrestoAnswered
    /\ dreq.imgH = 2000
    /\ LET c == PrestoCandidates(dreq.words, dreq.imgW, dreq.imgH)
       IN  /\ Len(c) = 2
           /\ Abs(c[1].cy2 - c[2].cy2) = 2 * 30
           /\ Len(dresp.detections) = 1
           /\ dresp.detections[1].conf = Max2(c[1].conf, c[2].conf)

\* The detection d is what detectPresto derives from the recognizer word w.
FromWord(d, w) ==
    /\ d.text = DigitsOnly(w.text)
    /\ d.x = w.x0
    /\ d.y = w.y0
    /\ d.w = w.x1 - w.x0
    /\ d.h = w.y1 - w.y0
    /\ d.conf = w.conf

\* C11: every candidate in a presto answer comes from a recognizer word and
\* has a text of 3 to 6 digits, confidence at least 60, its horizontal center
\* within the left 12% or the right 12% of the width, a height within
\* [0.010 H, 0.06 H] and an aspect within [0.9, 6.0]; the candidates are in
\* ascending (y, x) order.
C11_PrestoFilter ==
    PrestoAnswered =>
        LET d == dresp.detections
            W == dreq.imgW
            H == dreq.imgH
        IN  /\ \A i \in 1..Len(d) :
                  /\ Len(d[i].text) \in 3..6
                  /\ \A k \in 1..Len(d[i].text) : d[i].text[k] \in Digits
                  /\ d[i].conf >= 60
                  /\ \/ 100 * (2 * d[i].x + d[i].w) <= 2 * 12 * W
                     \/ 100 * (2 * d[i].x + d[i].w) >= 2 * 88 * W
                  /\ 1000 * d[i].h >= 10 * H
                  /\ 100 * d[i].h <= 6 * H
                  /\ 10 * d[i].w >= 9 * d[i].h
                  /\ 10 * d[i].w <= 60 * d[i].h
                  /\ \E k \in 1..Len(dreq.words) : FromWord(d[i], dreq.words[k])
            /\ \A i, j \in 1..Len(d) :
                  i < j => (d[i].y < d[j].y \/ (d[i].y = d[j].y /\ d[i].x <= d[j].x))
            /\ dresp.itemNumbers = [i \in 1..Len(d) |-> d[i].text]

\* The recognizer returned three words with the lowest one first and a word
\* that fails the filter among them; the answer holds the other two, the
\* upper one first.
C11_Witness ==
    /\ PrestoAnswered
    /\ Len(dreq.words) = 3
    /\ Len(dresp.detections) = 2
    /\ dreq.words[1].y0 > dreq.words[3].y0
    /\ FromWord(dresp.detections[1], dreq.words[3])
    /\ FromWord(dresp.detections[2], dreq.words[1])
    /\ \A i \in 1..2 : ~FromWord(dresp.detections[i], dreq.words[2])

\* A nurre request that was answered without a fault.
NurreAnswered ==
    /\ dresp # NoResp
    /\ dreq.hasFile
    /\ dreq.fault = "none"
    /\ Strategy(dreq) = "nurre"

\* The filter of SECONDARY as a rule on a region word, with the height limits
\* rounded to whole pixels or not.
NurrePasses(w, H, rounded) ==
    LET t == DigitsOnly(w.text)
        ww == w.x1 - w.x0
        hh == w.y1 - w.y0
    IN  /\ Len(t) \in 3..6
        /\ w.conf >= 55
        /\ hh >= 20
        /\ IF rounded THEN hh >= (18 * H + 500) \div 1000 ELSE 1000 * hh >= 18 * H
        /\ IF rounded THEN hh <= (120 * H + 500) \div 1000 ELSE 100 * hh <= 12 * H
        /\ ww > 0
        /\ 10 * ww >= 6 * hh
        /\ ww <= 10 * hh

\* The order of SECONDARY as a rule on two region words: v strictly before w.
NurreFirst(v, w) ==
    LET cv == 2 * v.y0 + (v.y1 - v.y0)
        cw == 2 * w.y0 + (w.y1 - w.y0)
        hv == v.y1 - v.y0
        hw == w.y1 - w.y0
    IN  \/ cv > cw
        \/ cv = cw /\ v.x0 < w.x0
        \/ cv = cw /\ v.x0 = w.x0 /\ hv > hw
        \/ cv = cw /\ v.x0 = w.x0 /\ hv = hw /\ v.conf > w.conf

\* The detection d is the region word w moved down by the offset top.
FromRoiWord(d, w, top) ==
    /\ d.text = DigitsOnly(w.text)
    /\ d.x = w.x0
    /\ d.y = w.y0 + top
    /\ d.w = w.x1 - w.x0
    /\ d.h = w.y1 - w.y0
    /\ d.conf = w.conf

\* What SECONDARY answers, as a rule: the output is made of ranked words, one
\* per place, each passing the filter and moved down by top; it is in order,
\* it has 3 places or as many as there are passing words, and no passing word
\* left out comes before one that is in.
NurreRule(rounded, top) ==
    LET ws == dreq.roiWords
        H == dreq.imgH
        d == dresp.detections
        pass == { k \in 1..Len(ws) : NurrePasses(ws[k], H, rounded) }
        n == Cardinality(pass)
    IN  /\ Len(d) = (IF n > 3 THEN 3 ELSE n)
        /\ \E pick \in [1..Len(d) -> pass] :
              /\ \A i, j \in 1..Len(d) : i # j => pick[i] # pick[j]
              /\ \A i \in 1..Len(d) : FromRoiWord(d[i], ws[pick[i]], top)
              /\ \A i, j \in 1..Len(d) : i < j => ~NurreFirst(ws[pick[j]], ws[pick[i]])
              /\ \A k \in pass : \A i \in 1..Len(d) :
                    NurreFirst(ws[k], ws[pick[i]]) => \E j \in 1..Len(d) : pick[j] = k
        /\ dresp.itemNumbers = [i \in 1..Len(d) |-> d[i].text]

\* C12 as stated: the height limits are max(20, 0.018 H) and 0.12 H, and the
\* offset is H - 0.30 H.
C12_AsStated ==
    (NurreAnswered /\ dreq.words = <<>> /\ (3 * dreq.imgH) % 10 = 0) =>
        NurreRule(FALSE, dreq.imgH - (3 * dreq.imgH) \div 10)

\* C12: nurre answers with at most 3 candidates, the first three of the words
\* passing its filter (3 to 6 digits, confidence at least 55, height within
\* [max(20, round(0.018 H)), round(0.12 H)], aspect within [0.6, 10.0]) in the
\* order descending y-center, ascending x, descending height, descending
\* confidence; their y is the region's y plus H - max(1, round(0.30 H)).
C12_NurreTopThree ==
    (NurreAnswered /\ dreq.words = <<>>) =>
        NurreRule(TRUE, dreq.imgH - Max2(1, (300 * dreq.imgH + 500) \div 1000))

\* On a 1240 px image the region held four passing words, the 22 px tall one
\* among them and the lowest one last; the answer has three, that one first,
\* 868 px below its place in the region.
C12_Witness ==
    /\ NurreAnswered
    /\ dreq.imgH = 1240
    /\ Len(dreq.roiWords) = 4
    /\ \A k \in 1..4 : NurrePasses(dreq.roiWords[k], 1240, TRUE)
    /\ dreq.roiWords[4].y1 - dreq.roiWords[4].y0 = 22
    /\ Len(dresp.detections) = 3
    /\ FromRoiWord(dresp.detections[1], dreq.roiWords[4], 868)

\* The selectors of the request being answered.
Selectors == [q |-> dreq.q, b |-> dreq.b, h |-> dreq.h]

\* The strategy the precedence query > body > header > default gives.
Preferred ==
    IF dreq.q # "" THEN dreq.q
    ELSE IF dreq.b # "" THEN dreq.b
    ELSE IF dreq.h # "" THEN dreq.h
    ELSE "presto"

\* C13: the strategy that runs first is the one the precedence gives (nurre
\* only when that is "nurre", presto otherwise and when no selector is given),
\* and a request with the selectors of a catalog upload runs presto alone.
C13_StrategyPrecedence ==
    (dresp # NoResp /\ dreq.hasFile /\ dreq.fault # "preprocess") =>
        /\ dtrace # <<>>
        /\ dtrace[1] = (IF Preferred = "nurre" THEN "nurre" ELSE "presto")
        /\ Preferred # "nurre" => dtrace = <<"presto">>
        /\ dresp.full => dresp.strategyUsed = Preferred
        /\ Selectors = CatalogSelectors => dtrace = <<"presto">>

\* A request whose body says presto and whose header says nurre was answered
\* by presto alone.
C13_Witness ==
    /\ dresp # NoResp
    /\ dreq.hasFile
    /\ dreq.q = ""
    /\ dreq.b = "presto"
    /\ dreq.h = "nurre"
    /\ dtrace = <<"presto">>
    /\ dresp.itemNumbers # <<>>

C16_BoxIds ==
    /\ \A i \in DOMAIN boxesMap :
          LET l == boxesMap[i]
          IN  /\ \A k \in 1..Len(l) : l[k].id \in Nat /\ l[k].id > 0
              /\ \A j, k \in 1..Len(l) : j # k => l[j].id # l[k].id
    /\ lastOp.name = "add" =>
          LET l == BoxesAt(lastOp.index)
              old == lastOp.before
          IN  /\ Len(l) = Len(old) + 1
              /\ SubSeq(l, 1, Len(old)) = old
              /\ \A k \in 1..Len(old) : l[Len(l)].id > old[k].id
              /\ \/ old = <<>> /\ l[Len(l)].id = 1
                 \/ \E k \in 1..Len(old) : l[Len(l)].id = old[k].id + 1

\* A box was added to a session left with box 2 alone, and it got id 3.
C16_Witness ==
    /\ lastOp.name = "add"
    /\ Len(lastOp.before) = 1
    /\ lastOp.before[1].id = 2
    /\ Len(BoxesAt(lastOp.index)) = 2
    /\ BoxesAt(lastOp.index)[2].id = 3

\* Every session but that of image i has the box list it had.
OthersKept(i) ==
    \A j \in DOMAIN boxesMap :
        j # i => (j \in DOMAIN boxesMap' /\ boxesMap'[j] = boxesMap[j])

\* C17: a row control, a remove button or "+ Add Box" used on image i, in the
\* single view or in the all view while another image is focused, leaves the
\* box list of every other image as it was. The code does not keep this: the
\* row controls of the all view act on the list of the image that was focused
\* when the row was rendered.
C17_SessionsIndependent ==
    [][\A i \in 0..(MaxFiles - 1) :
          /\ addCropBox(i) => OthersKept(i)
          /\ \A id \in 1..MaxBoxes :
                /\ RemoveButton(i, id) => OthersKept(i)
                /\ \A kind \in RowKinds, text \in LabelInputs :
                      RowControl(i, id, kind, IF kind = "label" THEN text ELSE "")
                          => OthersKept(i)]_vars

\* C18: Clear All leaves the box store without any session, and so does the
\* upload of a new batch: every list in the store at that moment was seeded
\* or edited for an earlier batch. The code does not keep the second part:
\* handleMultiUpload leaves the box store as it is.
C18_BatchReplaced ==
    [][/\ ClearAll => boxesMap' = << >>
       /\ \A list \in Uploads :
             handleMultiUploadWithin(list, MaxBatches) => boxesMap' = << >>]_vars

\* C19: every step that changes the focused image leaves the zoom at 1.0 and
\* the pan at (0, 0). The code does not keep this: only the thumbnails and
\* Prev/Next reset the view; the Focus button, a row click and a pointer-down
\* on another canvas only set the focus.
C19_FocusResetsView ==
    [][activeIdx' # activeIdx => (zoom4' = 4 /\ panOffset' = [x |-> 0, y |-> 0])]_vars

\* C20: when a detection request has been answered, normally or after an
\* error, none of the workers it created is still running. The code does not
\* keep this: terminate is skipped when setParameters or recognize throws.
C20_WorkersReleased ==
    dresp # NoResp => workers.live = 0

\* C21: once the request of image i has failed, the save is over: the status
\* is the failure status, the failed request is the last one that was sent,
\* nothing is in flight and the handler has returned.
C21_FailureStopsBatch ==
    save.failedAt # -1 =>
        /\ save.currentStep = StepText("failed", 0)
        /\ save.sent # <<>>
        /\ save.sent[Len(save.sent)] = save.failedAt
        /\ \A k \in 1..Len(save.sent) : save.sent[k] <= save.failedAt
        /\ save.inflight = {}
        /\ ~save.isProcessing

\* The request of image 0 failed while image 1 had boxes to submit.
C21_Witness ==
    /\ save.failedAt = 0
    /\ Len(save.payload) = 2
    /\ save.payload[2] > 0
    /\ save.sent = <<0>>

\* C22: the requests of a save go out in upload order, one at a time: at most
\* one is in flight, each was sent after the answer of the one before, no
\* image with boxes to submit is passed over, and at most one call of the
\* handler is running.
C22_OneAtATime ==
    /\ Cardinality(save.inflight) <= 1
    /\ save.calls <= 1
    /\ save.calls = (IF save.isProcessing THEN 1 ELSE 0)
    /\ \A j, k \in 1..Len(save.sent) : j < k => save.sent[j] < save.sent[k]
    /\ \A k \in 1..Len(save.sent) :
          /\ save.payload[save.sent[k] + 1] > 0
          /\ \A m \in 0..(save.sent[k] - 1) :
                save.payload[m + 1] > 0 => \E j \in 1..(k - 1) : save.sent[j] = m
    /\ save.inflight # {} =>
          /\ save.isProcessing
          /\ save.inflight = {save.sent[Len(save.sent)]}

\* The request of image 1 is in flight after that of image 0 was answered,
\* in the second save of the session.
C22_Witness ==
    /\ save.sent = <<0, 1>>
    /\ save.inflight = {1}
    /\ save.runs = 2

\* What a save shows when every submitted box was extracted.
SuccessStatuses == { StepText("saved", n) : n \in 0..(MaxFiles * MaxBoxes) }

\* C23: a save whose requests succeeded while the server dropped some of the
\* submitted boxes shows a status that a full success never shows. The code
\* does not keep this: it shows the number of results either way.
C23_PartialDistinct ==
    (save.result = "saved" /\ save.all < save.submitted) =>
        save.currentStep \notin SuccessStatuses


\* The handle zone of a box under the image point (x, y), "" for none: within
\* the outline grown by 15, a corner square of 15 before an edge band of 8.
HandleZone(x, y, b) ==
    LET right == b.x + b.width
        bottom == b.y + b.height
        near == /\ b.x - Px(15) <= x /\ x <= right + Px(15)
                /\ b.y - Px(15) <= y /\ y <= bottom + Px(15)
        east == x >= right - Px(15)
        west == x <= b.x + Px(15)
        south == y >= bottom - Px(15)
        north == y <= b.y + Px(15)
    IN  IF ~near THEN ""
        ELSE IF east /\ south THEN "se"
        ELSE IF east /\ north THEN "ne"
        ELSE IF west /\ south THEN "sw"
        ELSE IF west /\ north THEN "nw"
        ELSE IF right - Px(8) <= x /\ x <= right + Px(8) THEN "e"
        ELSE IF b.x - Px(8) <= x /\ x <= b.x + Px(8) THEN "w"
        ELSE IF bottom - Px(8) <= y /\ y <= bottom + Px(8) THEN "s"
        ELSE IF b.y - Px(8) <= y /\ y <= b.y + Px(8) THEN "n"
        ELSE ""

Inside(x, y, b) ==
    /\ b.x <= x /\ x <= b.x + b.width
    /\ b.y <= y /\ y <= b.y + b.height

Lowest(S) == CHOOSE k \in S : \A j \in S : k <= j

\* The gesture a pointer-down has started: a resize of box b with a handle.
StartsResize(b, tag, x, y) ==
    /\ gesture' = [gesture EXCEPT !.isResizing = TRUE, !.resizeHandle = tag,
                                   !.dragStart = [x |-> x, y |-> y],
                                   !.resizeStartBox = b]
    /\ activeCropId' = b.id

\* A drag of box b with the grab offset p - origin.
StartsDrag(b, x, y) ==
    /\ gesture' = [gesture EXCEPT !.isDragging = TRUE,
                                   !.dragStart = [x |-> x - b.x, y |-> y - b.y]]
    /\ activeCropId' = b.id

\* No box took the point: panning if shift is held or the focused image is
\* zoomed above 1, nothing otherwise.
StartsPanOrNothing(index, sx, sy, shiftKey) ==
    /\ activeCropId' = activeCropId
    /\ IF shiftKey \/ (index = activeIdx /\ zoom4 > 4)
       THEN gesture' = [gesture EXCEPT !.isPanning = TRUE,
                          !.panStart = [x |-> sx - panOffset.x, y |-> sy - panOffset.y]]
       ELSE gesture' = gesture

\* The hit test in one pass over the boxes: the first box that has the point
\* in a handle zone or in its body decides between resize and drag.
OnePass(index, sx, sy, shiftKey) ==
    LET x == ToImage(sx, UsePan(index).x, index)
        y == ToImage(sy, UsePan(index).y, index)
        boxes == BoxesAt(index)
        M == { k \in 1..Len(boxes) :
                 HandleZone(x, y, boxes[k]) # "" \/ Inside(x, y, boxes[k]) }
    IN  IF M = {} THEN StartsPanOrNothing(index, sx, sy, shiftKey)
        ELSE IF HandleZone(x, y, boxes[Lowest(M)]) # ""
        THEN StartsResize(boxes[Lowest(M)], HandleZone(x, y, boxes[Lowest(M)]), x, y)
        ELSE StartsDrag(boxes[Lowest(M)], x, y)

\* The hit test in two passes: the first box with the point in a handle zone;
\* if there is none, the first box with the point in its body.
TwoPasses(index, sx, sy, shiftKey) ==
    LET x == ToImage(sx, UsePan(index).x, index)
        y == ToImage(sy, UsePan(index).y, index)
        boxes == BoxesAt(index)
        Hs == { k \in 1..Len(boxes) : HandleZone(x, y, boxes[k]) # "" }
        Bs == { k \in 1..Len(boxes) : Inside(x, y, boxes[k]) }
    IN  IF Hs # {}
        THEN StartsResize(boxes[Lowest(Hs)], HandleZone(x, y, boxes[Lowest(Hs)]), x, y)
        ELSE IF Bs # {} THEN StartsDrag(boxes[Lowest(Bs)], x, y)
        ELSE StartsPanOrNothing(index, sx, sy, shiftKey)

\* C24 as stated: a pointer-down examines the boxes in insertion order and the
\* first box that matches, by a handle zone or by its body, wins: resize with
\* the handle's tag if the point is in a handle zone of that box, drag with
\* grab offset p - origin otherwise; panning only when no box matches.
C24_AsStated ==
    [][\A i \in 0..(MaxFiles - 1), sx \in HitXs, sy \in HitYs, shift \in BOOLEAN :
          handleMouseDown(i, sx, sy, shift) => OnePass(i, sx, sy, shift)]_vars

\* C24, amended: a pointer-down first looks for a handle zone over all boxes
\* in insertion order (corners before edges) and starts a resize of the first
\* box that has one under the point, even when an earlier box holds the point
\* in its body; only if no box has a handle there, the first box holding the
\* point in its body is dragged with grab offset p - origin; only if no box
\* matches, panning starts, and only with shift or a zoomed focused image.
C24_HandlesBeforeBodies ==
    [][\A i \in 0..(MaxFiles - 1), sx \in HitXs, sy \in HitYs, shift \in BOOLEAN :
          handleMouseDown(i, sx, sy, shift) => TwoPasses(i, sx, sy, shift)]_vars

\* A resize of the second box was started at a point in the body of the first.
C24_Witness ==
    /\ Len(BoxesAt(0)) = 2
    /\ gesture.isResizing
    /\ gesture.resizeStartBox = BoxesAt(0)[2]
    /\ activeCropId = BoxesAt(0)[2].id
    /\ Inside(gesture.dragStart.x, gesture.dragStart.y, BoxesAt(0)[1])
    /\ HandleZone(gesture.dragStart.x, gesture.dragStart.y, BoxesAt(0)[1]) = ""


\* The box of the list with the given id.
BoxOf(boxes, id) == CHOOSE b \in { boxes[k] : k \in 1..Len(boxes) } : b.id = id

\* C25: after every pointer move of a resize the edge or corner opposite to
\* the handle is where it was at pointer-down: the left edge for e, se, ne, the
\* right edge for w, sw, nw, the top edge for s, se, sw and the bottom edge for
\* n, ne, nw. The code does not keep this: the origin is clamped to
\* [0, W - width] x [0, H - height] after the size was set, and a near-side
\* handle moves the origin by the whole delta though the size stops at the
\* minimum.
C25_OppositeAnchored ==
    (/\ lastOp.name = "resize"
     /\ gesture.resizeStartBox # NoBox
     /\ \E k \in 1..Len(BoxesAt(lastOp.index)) : BoxesAt(lastOp.index)[k].id = activeCropId)
        => LET b == BoxOf(BoxesAt(lastOp.index), activeCropId)
               o == gesture.resizeStartBox
               h == gesture.resizeHandle
           IN  /\ h \in {"e", "se", "ne"} => b.x = o.x
               /\ h \in {"w", "sw", "nw"} => b.x + b.width = o.x + o.width
               /\ h \in {"s", "se", "sw"} => b.y = o.y
               /\ h \in {"n", "ne", "nw"} => b.y + b.height = o.y + o.height


\* The whole pixel nearest to a length v, the upper one of two equally near.
NearestPx(v) ==
    CHOOSE m \in { Sub * (v \div Sub), Sub * (v \div Sub) + Sub } :
        2 * m - Sub <= 2 * v /\ 2 * v < 2 * m + Sub

\* v clamped into [0, hi].
Into(hi, v) == IF v < 0 THEN 0 ELSE IF v > hi THEN hi ELSE v

\* The box of the spec's example and its drag by 50 to the right, grabbed at
\* (975, 25) in an image of 1000 x 1000.
ExampleBox == Box(1, 940, 10, 60, 30, "", FALSE)

ExampleDrag ==
    Dragged(ExampleBox, Px(975) + Px(50), Px(25), [x |-> Px(35), y |-> Px(15)],
            Px(1000), Px(1000))

\* C26: a pointer move of a drag puts the origin of the dragged box at
\* round(pointer_image - grab_offset) clamped into [0, W - width] x
\* [0, H - height], leaves its size, the other boxes and the grab offset as they
\* were; the 60 x 30 box at x = 940 of a 1000 x 1000 image dragged 50 to the
\* right stays at x = 940.
C26_DragClamped ==
    [][\A i \in 0..(MaxFiles - 1), sx \in DragXs, sy \in DragYs :
          (handleMouseMove(i, sx, sy, FALSE) /\ lastOp'.name = "drag") =>
             LET px == ToImage(sx, UsePan(i).x, i)
                 py == ToImage(sy, UsePan(i).y, i)
                 W == Px(files[i + 1].w)
                 H == Px(files[i + 1].h)
                 old == BoxesAt(i)
                 new == boxesMap'[i]
             IN  /\ gesture' = gesture
                 /\ Len(new) = Len(old)
                 /\ \A k \in 1..Len(old) :
                       IF old[k].id # activeCropId THEN new[k] = old[k]
                       ELSE new[k] =
                              [old[k] EXCEPT
                                 !.x = Into(W - old[k].width,
                                            NearestPx(px - gesture.dragStart.x)),
                                 !.y = Into(H - old[k].height,
                                            NearestPx(py - gesture.dragStart.y))]
                 /\ ExampleDrag = ExampleBox]_vars

\* A box that was at the right bound before a move of its drag is there after
\* it, the pointer being further right than the grab point allows; and the
\* grab offset is not a whole number of pixels.
C26_Witness ==
    /\ lastOp.name = "drag"
    /\ Len(lastOp.before) = 1
    /\ Len(BoxesAt(lastOp.index)) = 1
    /\ lastOp.before[1].x = Px(files[lastOp.index + 1].w) - lastOp.before[1].width
    /\ BoxesAt(lastOp.index)[1].x = lastOp.before[1].x
    /\ gesture.dragStart.x % Sub # 0


\* The box a key makes of the selected box cur: an arrow moves it by the step
\* along its axis, to the right and downwards without a limit; a bracket turns
\* it by one step of 0.15 degrees. stop tells whether ArrowLeft and ArrowUp
\* end at 0.
Keyed(cur, key, step, stop) ==
    CASE key = "ArrowLeft" ->
           [cur EXCEPT !.x = IF stop /\ cur.x < step THEN 0 ELSE cur.x - step]
      [] key = "ArrowRight" -> [cur EXCEPT !.x = cur.x + step]
      [] key = "ArrowUp" ->
           [cur EXCEPT !.y = IF stop /\ cur.y < step THEN 0 ELSE cur.y - step]
      [] key = "ArrowDown" -> [cur EXCEPT !.y = cur.y + step]
      [] key = "[" -> [cur EXCEPT !.rotation = cur.rotation - 1]
      [] key = "]" -> [cur EXCEPT !.rotation = cur.rotation + 1]

\* What a key step does: a box is selected and is in the list of the focused
\* image, the lists of the other images stay, and in that list the selected
\* box alone is changed by an editing key, or removed by Delete or Backspace
\* unless it is the only one.
KeyRule(key, shift, stop) ==
    LET old == BoxesAt(activeIdx)
        new == boxesMap'[activeIdx]
        step == IF shift THEN Px(10) ELSE Px(1)
        sel == { k \in 1..Len(old) : old[k].id = activeCropId }
    IN  /\ activeCropId # 0
        /\ sel # {}
        /\ DOMAIN boxesMap' = DOMAIN boxesMap
        /\ \A j \in DOMAIN boxesMap : j # activeIdx => boxesMap'[j] = boxesMap[j]
        /\ IF key \in RemoveKeys
           THEN new = IF Len(old) > 1
                      THEN SelectSeq(old, LAMBDA b : b.id # activeCropId)
                      ELSE old
           ELSE /\ Len(new) = Len(old)
                /\ \A k \in 1..Len(old) :
                      new[k] = IF k \in sel THEN Keyed(old[k], key, step, stop) ELSE old[k]

\* C27 as stated: a key acts only with a box selected and only on that box; an
\* arrow key moves it by 1 (10 with the modifier) along its axis, a bracket
\* turns it by one step, Delete and Backspace remove it unless it is the last.
C27_AsStated ==
    [][\A key \in EditKeys \cup RemoveKeys, shift \in BOOLEAN :
          onKey(key, shift) => KeyRule(key, shift, FALSE)]_vars

\* C27, amended: as stated, except that ArrowLeft and ArrowUp move the box by
\* the step only down to 0: x becomes max(0, x - step), y becomes
\* max(0, y - step). ArrowRight and ArrowDown add the step without a limit.
C27_KeysActOnSelection ==
    [][\A key \in EditKeys \cup RemoveKeys, shift \in BOOLEAN :
          onKey(key, shift) => KeyRule(key, shift, TRUE)]_vars

\* A key was pressed on a selected box at the left border and the list is as
\* it was: ArrowLeft stopped at 0.
C27_Witness ==
    /\ lastOp.name = "key"
    /\ activeCropId # 0
    /\ BoxesAt(lastOp.index) = lastOp.before
    /\ \E k \in 1..Len(lastOp.before) :
          /\ lastOp.before[k].id = activeCropId
          /\ lastOp.before[k].x = 0
          /\ lastOp.before[k].y > 0


\* The cursor by the rule: the first box in insertion order that the point
\* matches, by a handle zone or by its body, decides it; with no such box it is
\* grab when zoomed above 1 or with shift held, default otherwise.
RuleCursor(index, x, y, boxes, shiftKey) ==
    LET M == { k \in 1..Len(boxes) :
                 HandleZone(x, y, boxes[k]) # "" \/ Inside(x, y, boxes[k]) }
    IN  IF M # {}
        THEN IF HandleZone(x, y, boxes[Lowest(M)]) # "" THEN "nwse-resize" ELSE "move"
        ELSE IF zoom4 > 4 \/ shiftKey THEN "grab" ELSE "default"

\* C28: the cursor a pointer move outside a gesture sets is that of the first
\* box in insertion order that the point matches as handle or as body, a box
\* it matches as neither not standing in the way of a later one, and grab
\* (zoom > 1 or shift) or default if no box matches. The code stops at the
\* first box whose outline grown by 15 holds the point, match or not.
C28_CursorRule ==
    [][\A i \in 0..(MaxFiles - 1), sx \in CursorXs, sy \in CursorYs, shift \in BOOLEAN :
          (handleMouseMove(i, sx, sy, shift) /\ ~InGesture) =>
             cursor'[i] = RuleCursor(i, ToImage(sx, UsePan(i).x, i),
                                     ToImage(sy, UsePan(i).y, i), BoxesAt(i), shift)]_vars


\* The rectangle of a computed crop lies inside the rotated canvas.
InCanvas(r) ==
    /\ r.width <= r.RW
    /\ r.height <= r.RH
    /\ 0 <= r.left /\ r.left <= r.RW - r.width
    /\ 0 <= r.top /\ r.top <= r.RH - r.height

\* C29: for every box and rotation the extraction rectangle lies inside the
\* rotated canvas RW x RH: width <= RW, height <= RH, 0 <= rx <= RW - width and
\* 0 <= ry <= RH - height; a quarter turn swaps the sides of the bitmap and a
\* half turn keeps them.
C29_RectInsideCanvas ==
    extract.done =>
        /\ InCanvas(extract.rect)
        /\ extract.theta.rotation \in {9000, -9000} =>
              extract.rect.RW = extract.img.h /\ extract.rect.RH = extract.img.w
        /\ extract.theta.rotation \in {0, 18000} =>
              extract.rect.RW = extract.img.w /\ extract.rect.RH = extract.img.h

\* A rotated crop was computed whose box is wider than the rotated canvas and
\* whose rounded origin lay outside of it.
C29_Witness ==
    /\ extract.done
    /\ extract.theta.rotation \notin {0, 18000}
    /\ extract.rect.bw0 > extract.rect.RW
    /\ extract.rect.ry > extract.rect.RH - extract.rect.height

\* The crop at hand is a box of whole pixels inside the bitmap.
WholeInside ==
    /\ extract.crop.x % Sub = 0 /\ extract.crop.y % Sub = 0
    /\ extract.crop.width % Sub = 0 /\ extract.crop.height % Sub = 0
    /\ extract.crop.x >= 0 /\ extract.crop.y >= 0
    /\ extract.crop.width >= Sub /\ extract.crop.height >= Sub
    /\ extract.crop.x + extract.crop.width <= Px(extract.img.w)
    /\ extract.crop.y + extract.crop.height <= Px(extract.img.h)

\* C30: with rotation 0 the rotated canvas is the bitmap (RW = W, RH = H,
\* minX = minY = 0), and for a box of whole pixels inside the bitmap the
\* extraction rectangle is the box: (rx, ry, width, height) = (x, y, width,
\* height), for odd and for even sizes.
C30_IdentityAtZero ==
    (extract.done /\ extract.theta.rotation = 0) =>
        /\ extract.rect.RW = extract.img.w /\ extract.rect.RH = extract.img.h
        /\ extract.rect.minX = 0 /\ extract.rect.minY = 0
        /\ WholeInside =>
              /\ Px(extract.rect.left) = extract.crop.x
              /\ Px(extract.rect.top) = extract.crop.y
              /\ Px(extract.rect.width) = extract.crop.width
              /\ Px(extract.rect.height) = extract.crop.height

\* An unrotated crop of odd width and even height was computed from a bitmap
\* of odd size, away from the bitmap's origin.
C30_Witness ==
    /\ extract.done
    /\ extract.theta.rotation = 0
    /\ WholeInside
    /\ extract.img.w % 2 = 1
    /\ extract.rect.width % 2 = 1
    /\ extract.rect.height % 2 = 0
    /\ extract.rect.left > 0


\* Box new is box old but for the fields named in free.
SameBut(old, new, free) ==
    /\ DOMAIN new = DOMAIN old
    /\ \A f \in DOMAIN old : f \notin free => new[f] = old[f]

\* The fields a resize with the handle may change.
ResizeFields(handle) ==
    IF handle \in {"e", "w"} THEN {"x", "width"}
    ELSE IF handle \in {"n", "s"} THEN {"y", "height"}
    ELSE {"x", "y", "width", "height"}

\* C31, for the moves of a drag and of a resize: a pointer move changes only
\* what the gesture is about: a drag x and y of the grabbed box; a resize x, y,
\* width and height of it, an e or w handle leaving y and height and an n or s
\* handle leaving x and width. The other fields of the grabbed box and all
\* other boxes stay. The code clamps both coordinates of the origin whatever
\* the handle, so a resize with 's' pulls a box that reaches over the right
\* border to the left.
C31_GestureFrame ==
    (lastOp.name \in {"drag", "resize"} /\ Len(BoxesAt(lastOp.index)) = Len(lastOp.before))
        => \A k \in 1..Len(lastOp.before) :
              SameBut(lastOp.before[k], BoxesAt(lastOp.index)[k],
                      IF lastOp.before[k].id # activeCropId THEN {}
                      ELSE IF lastOp.name = "drag" THEN {"x", "y"}
                      ELSE ResizeFields(gesture.resizeHandle))


\* C32: the selected box id, when not null, is the id of a box of the focused
\* image's list. The code does not keep this: only the thumbnails, Prev/Next
\* and Clear All reset the selection; a removal of the selected box, the Focus
\* button and a new upload leave the id as it is, and a key or a later added
\* box with that id then meets it.
C32_SelectionExists ==
    activeCropId # 0 =>
        \E k \in 1..Len(BoxesAt(activeIdx)) : BoxesAt(activeIdx)[k].id = activeCropId


\* C33: at most one of drag, resize and pan is active, and a resize is active
\* only with a handle tag and the box recorded at pointer-down. The code does
\* not keep the first part: handleMouseDown sets the flag of the gesture it
\* starts and leaves the others, so a second pointer-down before the
\* pointer-up adds a gesture to the running one.
C33_OneGesture ==
    /\ ~(gesture.isDragging /\ gesture.isResizing)
    /\ ~(gesture.isDragging /\ gesture.isPanning)
    /\ ~(gesture.isResizing /\ gesture.isPanning)
    /\ gesture.isResizing => (gesture.resizeHandle # "" /\ gesture.resizeStartBox # NoBox)


\* C34: the detections of one batch are in flight together, each for an index
\* of its own, and the completion of one writes the list seeded from its own
\* result at its own index and leaves the list of every other index as it
\* was; so for every order of completion each index ends with its own list.
C34_OwnListOnly ==
    [][/\ \A list \in Uploads :
            handleMultiUploadWithin(list, MaxBatches) =>
                \A i \in 0..(Min2(Len(list), 5) - 1) :
                    \E t \in pending' \ pending : t.idx = i /\ t.img = list[i + 1]
       /\ \A task \in pending, outcome \in SeedOutcomes :
            DetectionSettled(task, outcome) =>
                /\ \A t \in pending :
                       (t.batch = task.batch /\ t.idx = task.idx) => t = task
                /\ boxesMap'[task.idx] = SeedBoxes(task, outcome)
                /\ \A k \in DOMAIN boxesMap : k # task.idx =>
                       (k \in DOMAIN boxesMap' /\ boxesMap'[k] = boxesMap[k])
                /\ DOMAIN boxesMap' = DOMAIN boxesMap \cup {task.idx}]_vars

\* Two images of one batch, the second seeded first and the first last.
C34_Witness ==
    /\ Len(files) = 2
    /\ budget.uploads = 1
    /\ pending = {}
    /\ lastOp.name = "seed"
    /\ lastOp.index = 0
    /\ lastOp.before = <<>>
    /\ DOMAIN boxesMap = {0, 1}
    /\ Len(boxesMap[0]) = 3
    /\ Len(boxesMap[1]) = 1


\* C35: a detection that completes after Clear All, after a newer upload, or
\* after the operator put boxes on its image, leaves the box lists as they
\* are. The code does not keep this: the completion writes its list whatever
\* happened since the upload.
C35_LateSeedingKeeps ==
    [][\A task \in pending, outcome \in SeedOutcomes :
          (/\ DetectionSettled(task, outcome)
           /\ \/ files = <<>>
              \/ task.batch # budget.uploads
              \/ (budget.uploads = 1 /\ BoxesAt(task.idx) # <<>>))
          => boxesMap' = boxesMap]_vars


\* C36: any two adjacent detections of detectPresto's output have vertical
\* centers that differ by more than MERGE_GAP. The code does not keep this:
\* a candidate that replaces the last kept one is compared with that one
\* only, not with the one kept before it.
C36_OnePerRow ==
    (dresp # NoResp /\ dresp.full /\ dtrace = <<"presto">>) =>
        \A k \in 1..(Len(dresp.detections) - 1) :
            Abs((2 * dresp.detections[k + 1].y + dresp.detections[k + 1].h)
                - (2 * dresp.detections[k].y + dresp.detections[k].h))
                > 2 * MERGE_GAP(dreq.imgH)

\* C37: strategyUsed names the strategy whose output the response carries:
\* presto when it ran alone or when its output replaced the empty output of
\* nurre, nurre otherwise. The code answers with the strategy selected.
C37_StrategyNamesProducer ==
    (dresp # NoResp /\ dresp.full) =>
        dresp.strategyUsed =
            IF \/ dtrace = <<"presto">>
               \/ (dtrace = <<"nurre", "presto">> /\ dresp.itemNumbers # <<>>)
            THEN "presto" ELSE "nurre"

=============================================================================
